---- MODULE Spec2Model ----
(***************************************************************************)
(* Model of the governor runtime core: the operator network built from a   *)
(* configuration (governor/objects/network.py), the shared memory          *)
(* (governor/runtime/memory.py) and the parallel execution of the network  *)
(* by the controller (governor/runtime/controller.py) on top of the        *)
(* processors of governor/runtime/multiprocessing.py.                      *)
(***************************************************************************)
EXTENDS Integers, Sequences, FiniteSets, TLC

(***************************************************************************)
(* Bounds of the model                                                     *)
(***************************************************************************)
\* largest number of operators of a configuration that is only built
MaxNetOps == 4
\* largest number of operators of a configuration that carry a run_after list
MaxLists == 1
\* largest number of operators of a configuration whose run_after names an
\* identifier that no operator has
MaxUnknown == 1
\* largest number of operators of a configuration that is built and run
MaxOps == 3
\* largest number of operators of a configuration that is run under fairness
MaxLiveOps == 2
\* largest number of pieces a parameter string is put together from
MaxPieces == 5
\* largest number of operators of a configuration run one after the other
\* whose last operator reads shared input parameters
MaxInputOps == 2
\* largest number of calls of _compile_operator_input_params and of
\* _operator_settings made on one controller
MaxCalls == 2
\* largest number of operators of a configuration whose operators come with
\* or without id_
MaxIdOps == 3
\* largest value of the repeat setting of an operator
MaxRepeat == 2
\* largest number of operators of a configuration that is run with
\* save_output or a repeat above 1
MaxSettings == 1
\* largest number of operators of a configuration whose run_after settings
\* name earlier operators only
MaxGroupOps == 4
\* largest number of operators that follow, one after the other, one of two
\* operators that run in parallel
MaxFollowers == 1
\* largest number of operators given to a Processors object by add_config
MaxProcessorOps == 2
\* largest identifier of the processors of a Processors object
MaxProcessors == 2

(***************************************************************************)
(* Values of the configuration                                             *)
(***************************************************************************)
\* Network._null_operator_id
NULL == "__null__"

AllIds == <<"A", "B", "C", "D", "E", "F">>

Range(s) == {s[i] : i \in 1..Len(s)}

\* the user identifiers of a configuration of n operators, in declaration order
IdsOf(n) == SubSeq(AllIds, 1, n)

\* a run_after setting: absent (None), one identifier (str), several (list)
NoneRA == [kind |-> "none", ids |-> <<>>]
StrRA(u) == [kind |-> "str", ids |-> <<u>>]
ListRA(s) == [kind |-> "list", ids |-> s]

\* an identifier that no operator of a configuration has
UnknownId == "Z"

\* the run_after settings an operator of a configuration over ids may carry;
\* a list names two different operators (in declaration order)
RunAfterChoices(ids) ==
    {NoneRA}
    \cup {StrRA(u) : u \in Range(ids)}
    \cup {ListRA(<<ids[p[1]], ids[p[2]]>>) :
            p \in {q \in (1..Len(ids)) \X (1..Len(ids)) : q[1] < q[2]}}

\* config_payload_operator_parameters(): the settings of an operator the
\* runtime core reads, with their defaults
\* a name is a string, the sequence of its characters; None is told apart
\* from every string
Name(c) == <<c>>
NoneName == <<"<None>">>

\* shared_input_params: absent (None), one instruction (str), several
\* (list), or names with their initial values (dict)
NoneIn == [kind |-> "none", names |-> <<>>, values |-> <<>>]
StrIn(name) == [kind |-> "str", names |-> <<name>>, values |-> <<>>]
ListIn(names) == [kind |-> "list", names |-> names, values |-> <<>>]
DictIn(names, values) == [kind |-> "dict", names |-> names, values |-> values]

\* a dictionary without keys, and None for dedicated_input_params
NoParams == [k \in {} |-> 0]

OperatorDefaults ==
    [id_ |-> NULL, run_after |-> NoneRA, repeat |-> 1, save_output |-> FALSE,
     shared_output_name |-> NoneName, shared_input_params |-> NoneIn,
     dedicated_input_params |-> NoParams, shared_input_init_only |-> FALSE,
     reinitialize_in_repeats |-> TRUE]

\* the key under which the output of an operator is saved (controller.py,
\* lines 311-312): shared_output_name, or the identifier when it is None
StorageName(cfg) ==
    IF cfg.shared_output_name # NoneName THEN cfg.shared_output_name
    ELSE Name(cfg.id_)

\* the run_after settings of configurations of n operators, of which at most
\* MaxLists carry a list
RunAfterSettings(n) ==
    {f \in [1..n -> RunAfterChoices(IdsOf(n))] :
        Cardinality({i \in 1..n : f[i].kind = "list"}) <= MaxLists}

\* those of which at least one and at most MaxUnknown name an unknown
\* identifier
UnknownSettings(n) ==
    {f \in [1..n -> RunAfterChoices(IdsOf(n)) \cup {StrRA(UnknownId)}] :
        /\ Cardinality({i \in 1..n : f[i].kind = "list"}) <= MaxLists
        /\ Cardinality({i \in 1..n : f[i] = StrRA(UnknownId)})
              \in 1..MaxUnknown}

\* the settings an operator of a configuration that is run can have besides
\* its run_after: the defaults, save_output under its identifier ("id") or
\* under the name "x" ("name"), or a repeat above 1
Setting(save, repeat) == [save |-> save, repeat |-> repeat]
DefaultSetting == Setting("no", OperatorDefaults.repeat)
SettingChoices ==
    {DefaultSetting}
        \cup {Setting(save, OperatorDefaults.repeat) : save \in {"id", "name"}}
        \cup {Setting("no", repeat) : repeat \in 2..MaxRepeat}

\* the settings of configurations of n operators, of which at most
\* MaxSettings differ from the defaults
Settings(n) ==
    {f \in [1..n -> SettingChoices] :
        Cardinality({i \in 1..n : f[i] # DefaultSetting}) <= MaxSettings}

DefaultSettings(n) == [i \in 1..n |-> DefaultSetting]

\* the configuration of n operators with the given settings; with read,
\* every operator with a single run_after reads the key the named operator
\* saves under
Configuration(n, ras, st, read) ==
    LET ids == IdsOf(n)
        Input(i) ==
            IF read /\ ras[i].kind = "str" /\ ras[i].ids[1] # ids[i]
                    /\ ras[i].ids[1] \in Range(ids)
            THEN LET j == CHOOSE k \in 1..n : ids[k] = ras[i].ids[1]
                 IN  StrIn(IF st[j].save = "name" THEN Name("x")
                           ELSE Name(ids[j]))
            ELSE NoneIn
    IN  [i \in 1..n |->
            [id_ |-> ids[i], run_after |-> ras[i], repeat |-> st[i].repeat,
             save_output |-> st[i].save # "no",
             shared_output_name |->
                 IF st[i].save = "name" THEN Name("x") ELSE NoneName,
             shared_input_params |-> Input(i),
             dedicated_input_params |->
                 OperatorDefaults.dedicated_input_params,
             shared_input_init_only |->
                 OperatorDefaults.shared_input_init_only,
             reinitialize_in_repeats |->
                 OperatorDefaults.reinitialize_in_repeats]]

\* the value of the key "x" in the shared data of a header that has some
\* (a value: where it comes from, the run that returned it, its type)
HeaderValue == [op |-> "header", run |-> 0, type |-> "int"]
NoSharedData == [k \in {} |-> HeaderValue]
SharedData == [k \in {Name("x")} |-> HeaderValue]

\* values of the header, of a mapping form and of dedicated_input_params
HeaderValueOf(type) == [op |-> "header", run |-> 0, type |-> type]
Initial(type) == [op |-> "initial", run |-> 0, type |-> type]
DedicatedValue == [op |-> "dedicated", run |-> 0, type |-> "int"]

\* the shared data of the headers of the configurations whose operators
\* carry input parameters
SharedDataChoices ==
    {NoSharedData}
        \cup {[k \in {Name("x")} |-> HeaderValueOf(type)] :
                 type \in {"int", "str"}}
        \cup {[k \in {Name("x"), Name("y")} |-> HeaderValue]}

\* the instructions of the string and the list form: a source, or a source
\* and a name joined by " AS " or " as "
Instructions ==
    {Name(c) : c \in {"x", "y"}}
        \cup {Name(c) \o d \o Name(a) :
                 c \in {"x", "y"}, a \in {"x", "y", "v"},
                 d \in {<<" ", "A", "S", " ">>, <<" ", "a", "s", " ">>}}

\* the shared_input_params of these operators
InputChoices ==
    {NoneIn}
        \cup {StrIn(s) : s \in Instructions}
        \cup {ListIn(<<s, t>>) : s, t \in Instructions}
        \cup {DictIn(<<Name(c)>>, <<Initial(type)>>) :
                 c \in {"x", "y"}, type \in {"int", "str"}}
        \cup {DictIn(<<Name("x"), Name("y")>>, <<Initial(t), Initial(u)>>) :
                 t, u \in {"int", "str"}}

\* their dedicated_input_params
DedicatedChoices == {NoParams, [k \in {Name("y")} |-> DedicatedValue]}

\* the configuration of n operators run one after the other, of which the
\* last carries the given input parameters
InputConfiguration(n, input_, dedicated, init_only) ==
    [Configuration(n, [i \in 1..n |-> NoneRA], DefaultSettings(n), FALSE)
        EXCEPT ![n].shared_input_params = input_,
               ![n].dedicated_input_params = dedicated,
               ![n].shared_input_init_only = init_only]

VARIABLES
    config,       \* ConfigWrapper.operators: the payload operators, in order
    shared_data,  \* ConfigWrapper.header_shared_data
    pc,           \* position of the controller
    err,          \* the exception that ended the construction or the run
    edges,        \* Network._edges
    n_iter,       \* iterations of the run_after loop of Network._build done
    tree,         \* Controller._tree
    memory,       \* Memory._shared._data
    completed,    \* Controller._completed
    jobs,         \* Jobs._jobs, in insertion order
    init,         \* the init argument of the running _run_multiprocessing
    operators,    \* Processors._operators, in insertion order
    processors,   \* Processors._processors
    operator_map, \* Processors._operator_map, in insertion order
    spawned,      \* per operator, the OperatorProcess objects created so far
    parameter_instruction,  \* the argument of a call of _get_shared_parameter_as
    parsed,       \* what that call returns or raises
    calls,        \* the calls of _compile_operator_input_params and of
                  \* _operator_settings made on the controller, with results
    parallelize,  \* header_enable_multiprocessing
    sequence,     \* _run_sequential: the rest of the operator sequence
    seq_runs,     \* _run_sequential: runs, the runs left of the operator
    executed,     \* Controller._executed
    instantiated, \* per operator, the operators _get_operator has returned
    ids_,         \* Network._build: the identifiers of the operators so far
    handle,       \* _run_sequential: operator, the Operator that is run
    dedicated_    \* Memory._dedicated._data

netvars == <<edges, n_iter, tree>>
runvars == <<memory, completed, jobs, init, operators, processors,
             operator_map, spawned>>
cfgvars == <<config, shared_data, parallelize>>
seqvars == <<sequence, seq_runs, executed, instantiated>>
callvars == <<parameter_instruction, parsed, calls>>
objvars == <<ids_, handle, dedicated_>>
vars == <<cfgvars, objvars, callvars, seqvars, pc, err, netvars, runvars>>

\* a configuration that differs from the defaults in run_after only
NetConfig ==
    /\ \E n \in 1..MaxNetOps : \E ras \in RunAfterSettings(n) :
          config = Configuration(n, ras, DefaultSettings(n), FALSE)
    /\ shared_data = NoSharedData

\* a configuration of at most max operators that is run: one with a
\* run_after list keeps the default settings; shared data come with
\* operators that read
RunConfig(max) ==
    \E n \in 1..max : \E ras \in RunAfterSettings(n) :
        IF \E i \in 1..n : ras[i].kind = "list"
        THEN /\ config = Configuration(n, ras, DefaultSettings(n), FALSE)
             /\ shared_data = NoSharedData
        ELSE \E st \in Settings(n) :
                \/ /\ config = Configuration(n, ras, st, FALSE)
                   /\ shared_data = NoSharedData
                \/ /\ config = Configuration(n, ras, st, TRUE)
                   /\ shared_data \in {NoSharedData, SharedData}

(***************************************************************************)
(* Strings (governor/utils/helpers.py) and the AS instruction of a shared  *)
(* input parameter (Controller._get_shared_parameter_as)                   *)
(***************************************************************************)
\* a string is the sequence of its characters
Space == " "

\* str.lower and str.upper on the characters of the model
LowerChar(c) == IF c = "A" THEN "a" ELSE IF c = "S" THEN "s" ELSE c
UpperChar(c) == IF c = "a" THEN "A" ELSE IF c = "s" THEN "S" ELSE c
Lower(s) == [i \in 1..Len(s) |-> LowerChar(s[i])]
Upper(s) == [i \in 1..Len(s) |-> UpperChar(s[i])]

\* the positions at which d occurs in s
Occurrences(s, d) ==
    {i \in 1..(Len(s) - Len(d) + 1) : SubSeq(s, i, i + Len(d) - 1) = d}

\* d in s
Contains(s, d) == Occurrences(s, d) # {}

\* s.split(d)
RECURSIVE Split(_, _)
Split(s, d) ==
    IF ~Contains(s, d) THEN <<s>>
    ELSE LET i == CHOOSE k \in Occurrences(s, d) :
                      \A l \in Occurrences(s, d) : k <= l
         IN  <<SubSeq(s, 1, i - 1)>>
                 \o Split(SubSeq(s, i + Len(d), Len(s)), d)

\* s.strip()
RECURSIVE Strip(_)
Strip(s) ==
    IF s = <<>> THEN s
    ELSE IF Head(s) = Space THEN Strip(Tail(s))
    ELSE IF s[Len(s)] = Space THEN Strip(SubSeq(s, 1, Len(s) - 1))
    ELSE s

\* None, and a list of strings, as results of string_splitter
None == [none |-> TRUE, list |-> <<>>]
List(l) == [none |-> FALSE, list |-> l]

\* string_splitter without a return_index
StringSplitter(string_object, delimiter) ==
    IF Contains(string_object, Lower(delimiter))
    THEN List(Split(string_object, Lower(delimiter)))
    ELSE IF Contains(string_object, Upper(delimiter))
    THEN List(Split(string_object, Upper(delimiter)))
    ELSE None

\* strings_contain_whitespace
StringsContainWhitespace(strings) ==
    [strings |-> [i \in 1..Len(strings) |-> Strip(strings[i])],
     has_whitespace |-> \E i \in 1..Len(strings) :
                            Contains(strings[i], <<Space>>)]

\* the delimiter of the AS instruction
Delimiter == <<" ", "a", "s", " ">>

\* what _get_shared_parameter_as returns (source, as_) or raises (err)
Returned(source, as_) == [err |-> "", source |-> source, as_ |-> as_]
Raised(exception) == [err |-> exception, source |-> <<>>, as_ |-> <<>>]
NotParsed == [err |-> "not called", source |-> <<>>, as_ |-> <<>>]

\* _get_shared_parameter_as, lines 490-493: the two parts are returned
\* when neither contains whitespace
WithoutWhitespace(checked) ==
    IF ~checked.has_whitespace
    THEN Returned(checked.strings[1], checked.strings[2])
    ELSE Raised("ValueError")

\* _get_shared_parameter_as, lines 486-501, on the result of the split
AsInstruction(s, as_) ==
    IF as_.none THEN Returned(s, s)
    ELSE IF Len(as_.list) = 2
    THEN WithoutWhitespace(StringsContainWhitespace(as_.list))
    ELSE Raised("ValueError")

\* Controller._get_shared_parameter_as
GetSharedParameterAs(s) == AsInstruction(s, StringSplitter(s, Delimiter))

\* the pieces the parameter strings of the model are put together from
Pieces ==
    {<<"x">>, <<"y">>, <<" ">>, <<"A", "S">>,
     <<" ", "A", "S", " ">>, <<" ", "a", "s", " ">>,
     <<" ", "A", "s", " ">>, <<" ", "a", "S", " ">>}

\* the strings put together from at most k pieces
RECURSIVE StringsOf(_)
StringsOf(k) ==
    IF k = 0 THEN {<<>>}
    ELSE LET shorter == StringsOf(k - 1)
         IN  shorter \cup {s \o piece : s \in shorter, piece \in Pieces}

(***************************************************************************)
(* Network (governor/objects/network.py)                                   *)
(***************************************************************************)
\* Network._Link
Link(source, target) == [source |-> source, target |-> target]

\* Network._operators[id_]: the configuration reader of an operator
OperatorCfg(ops, id) == ops[CHOOSE i \in 1..Len(ops) : ops[i].id_ = id]

\* Network._build, lines 160-189: the identifiers with the null operator
\* first, and one edge from each to the next one
InitialEdges(ops) ==
    LET ids == <<NULL>> \o [i \in 1..Len(ops) |-> ops[i].id_]
    IN  [i \in 1..Len(ops) |-> Link(StrRA(ids[i]), ids[i + 1])]

NoUpdate == [now |-> FALSE, later |-> FALSE, ins |-> 0, rem |-> 0]

\* Network._build, lines 222-253: the search of the new position of the edge
\* at index i whose target must run after the single operator exp; j is the
\* index looked at and st the update prepared so far.  Indices are those of
\* the code plus one; ins is the code's insert position.
RECURSIVE FindPositionStr(_, _, _, _, _, _)
FindPositionStr(e, n_edges, i, exp, j, st) ==
    IF j > Len(e) THEN st
    ELSE IF j = i THEN FindPositionStr(e, n_edges, i, exp, j + 1, st)
    ELSE IF e[j].source = exp /\ j < n_edges /\ e[j + 1].source = exp
         THEN FindPositionStr(e, n_edges, i, exp, j + 1, st)
    ELSE LET now == e[j].source = exp
             later == st.later \/ (~now /\ StrRA(e[j].target) = exp)
             st2 == IF now \/ later
                    THEN [now |-> now, later |-> later, ins |-> j,
                          rem |-> IF j < i THEN i + 1 ELSE i]
                    ELSE st
         IN  IF now THEN st2
             ELSE FindPositionStr(e, n_edges, i, exp, j + 1, st2)

\* Network._build, lines 256-275: the same search for a run_after list exp;
\* found counts the edges seen whose source is named in the list
RECURSIVE FindPositionList(_, _, _, _, _)
FindPositionList(e, i, exp, j, found) ==
    IF j > Len(e) THEN NoUpdate
    ELSE IF e[j].source.kind = "str" /\ e[j].source.ids[1] \in Range(exp.ids)
         THEN IF found + 1 = Len(exp.ids)
              THEN [now |-> TRUE, later |-> FALSE, ins |-> j,
                    rem |-> IF j < i THEN i + 1 ELSE i]
              ELSE FindPositionList(e, i, exp, j + 1, found + 1)
    ELSE FindPositionList(e, i, exp, j + 1, found)

\* Network._build, lines 203-278: the first edge, in list order, for which
\* an update is prepared, with that update
RECURSIVE Evaluate(_, _, _, _)
Evaluate(ops, e, n_edges, i) ==
    IF i > Len(e) THEN NoUpdate @@ [idx |-> 0]
    ELSE LET exp == OperatorCfg(ops, e[i].target).run_after
             st == IF exp.kind = "str"
                   THEN IF e[i].source = exp THEN NoUpdate
                        ELSE FindPositionStr(e, n_edges, i, exp, 1, NoUpdate)
                   ELSE IF exp.kind = "list"
                   THEN FindPositionList(e, i, exp, 1, 0)
                   ELSE NoUpdate
         IN  IF st.now \/ st.later THEN st @@ [idx |-> i]
             ELSE Evaluate(ops, e, n_edges, i + 1)

\* list.insert(pos, x) and del list[idx], on the code's positions plus one
InsertAt(s, pos, x) == SubSeq(s, 1, pos) \o <<x>> \o SubSeq(s, pos + 1, Len(s))
DeleteAt(s, idx) == SubSeq(s, 1, idx - 1) \o SubSeq(s, idx + 1, Len(s))

\* Update without the test that the edge left behind comes from the moved
\* operator: the edge at the old position is always given a new source
UpdateUnchecked(ops, e, n_edges, u) ==
    LET moved == e[u.idx].target
        new == Link(OperatorCfg(ops, moved).run_after, moved)
        e2 == DeleteAt(InsertAt(e, u.ins, new), u.rem)
        before == IF u.rem = 1 THEN Len(e2) ELSE u.rem - 1
    IN  IF u.rem <= n_edges
        THEN [e2 EXCEPT ![u.rem].source = StrRA(e2[before].target)]
        ELSE e2

\* Update that removes the edge that follows the edge of the moved operator
UpdateRemovingFollower(ops, e, n_edges, u) ==
    LET moved == e[u.idx].target
        new == Link(OperatorCfg(ops, moved).run_after, moved)
        follower == IF u.rem <= n_edges THEN u.rem + 1 ELSE u.rem
        e2 == DeleteAt(InsertAt(e, u.ins, new), follower)
        before == IF u.rem = 1 THEN Len(e2) ELSE u.rem - 1
    IN  IF u.rem <= n_edges /\ e2[u.rem].source = StrRA(moved)
        THEN [e2 EXCEPT ![u.rem].source = StrRA(e2[before].target)]
        ELSE e2

\* Update that removes the edge at the index it had before the insertion,
\* also when the new edge was inserted before it
UpdateRemovingAtIndex(ops, e, n_edges, u) ==
    LET moved == e[u.idx].target
        new == Link(OperatorCfg(ops, moved).run_after, moved)
        e2 == DeleteAt(InsertAt(e, u.ins, new), u.idx)
        before == IF u.idx = 1 THEN Len(e2) ELSE u.idx - 1
    IN  IF u.idx <= n_edges /\ e2[u.idx].source = StrRA(moved)
        THEN [e2 EXCEPT ![u.idx].source = StrRA(e2[before].target)]
        ELSE e2

\* Network._build, lines 280-288: the prepared update applied; the edge that
\* follows the removed one and leaves the moved operator is attached to the
\* target of the edge before it (the last edge of the list, by the negative
\* index, when it is the first edge)
Update(ops, e, n_edges, u) ==
    LET moved == e[u.idx].target
        new == Link(OperatorCfg(ops, moved).run_after, moved)
        e2 == DeleteAt(InsertAt(e, u.ins, new), u.rem)
        before == IF u.rem = 1 THEN Len(e2) ELSE u.rem - 1
    IN  IF u.rem <= n_edges /\ e2[u.rem].source = StrRA(moved)
        THEN [e2 EXCEPT ![u.rem].source = StrRA(e2[before].target)]
        ELSE e2

\* Network._build, lines 193-288: one iteration of the run_after loop
Rewrite(ops, e) ==
    LET u == Evaluate(ops, e, Len(ops), 1)
    IN  IF u.now \/ u.later THEN Update(ops, e, Len(ops), u) ELSE e

\* Network.operator_tree, lines 133-149, fails with a TypeError when the
\* source of an edge is a list (a list is no dictionary key)
TreeFails(e) == \E i \in 1..Len(e) : e[i].source.kind = "list"

\* Network.operator_tree, lines 133-151: for every source, in edge order,
\* the targets of its edges
RECURSIVE Targets(_, _, _)
Targets(e, src, i) ==
    IF i > Len(e) THEN <<>>
    ELSE (IF e[i].source = StrRA(src) THEN <<e[i].target>> ELSE <<>>)
         \o Targets(e, src, i + 1)

OperatorTree(e) ==
    [src \in {e[i].source.ids[1] : i \in 1..Len(e)} |-> Targets(e, src, 1)]

EmptyTree == [src \in {} |-> <<>>]

(***************************************************************************)
(* Operators (governor/objects/operator.py)                                *)
(***************************************************************************)
\* Operator.__init__: the states a new operator has been in, its exception
\* and its response; and the operator of a controller that has created none
NewOperator ==
    [states |-> <<"OFFLINE">>, exception |-> "", response |-> "None"]
NoOperator == [states |-> <<>>, exception |-> "", response |-> "None"]

(***************************************************************************)
(* Shared memory (governor/runtime/memory.py, Memory._Shared)              *)
(***************************************************************************)
EmptyMemory == [k \in {} |-> 0]

\* Memory._Shared.exists
Exists(mem, id) == id \in DOMAIN mem

\* Memory._Shared.add that overwrites the data of an identifier in memory
AddOverwrite(mem, id, data) ==
    [k \in DOMAIN mem \cup {id} |-> IF k = id THEN data ELSE mem[k]]

\* Memory._Shared.add: nothing changes when the identifier is in memory
Add(mem, id, data) ==
    IF id \notin DOMAIN mem THEN mem @@ (id :> data) ELSE mem

\* Memory._Shared.get
Get(mem, id) == IF id \in DOMAIN mem THEN <<mem[id]>> ELSE <<>>

\* Memory._Shared.update that does not read the create flag
MemUpdateCreate(mem, id, data, create) ==
    IF id \in DOMAIN mem THEN [mem EXCEPT ![id] = data]
    ELSE Add(mem, id, data)

\* Memory._Shared.update
MemUpdate(mem, id, data, create) ==
    IF id \in DOMAIN mem THEN [mem EXCEPT ![id] = data]
    ELSE IF create THEN Add(mem, id, data)
    ELSE mem

NoProcessors == [p \in {} |-> 0]

(***************************************************************************)
(* Construction of the network: Controller._create_network                 *)
(***************************************************************************)
\* Network.__init__ up to the initial edges of _build
InitVars ==
    /\ pc = "build"
    /\ err = ""
    /\ edges = InitialEdges(config)
    /\ n_iter = 0
    /\ tree = EmptyTree
    /\ memory = EmptyMemory
    /\ completed = <<>>
    /\ jobs = <<>>
    /\ init = TRUE
    /\ operators = <<>>
    /\ processors = NoProcessors
    /\ operator_map = <<>>
    /\ spawned = [id \in Range(AllIds) |-> 0]
    /\ parameter_instruction = <<>>
    /\ parsed = NotParsed
    /\ calls = <<>>
    /\ sequence = <<>>
    /\ seq_runs = 0
    /\ executed = <<>>
    /\ instantiated = [id \in Range(AllIds) |-> 0]
    /\ ids_ = <<NULL>> \o [i \in 1..Len(config) |-> config[i].id_]
    /\ handle = NoOperator
    /\ dedicated_ = EmptyMemory

\* one iteration of the run_after loop of Network._build (range(n_edges))
ApplyRunAfter ==
    /\ pc = "build"
    /\ n_iter < Len(config)
    /\ edges' = Rewrite(config, edges)
    /\ n_iter' = n_iter + 1
    /\ UNCHANGED <<cfgvars, objvars, callvars, seqvars, pc, err, tree, runvars>>

\* Controller._create_network, lines 127-134: the tree of the built network
CreateTree ==
    /\ pc = "build"
    /\ n_iter = Len(config)
    /\ IF TreeFails(edges)
       THEN pc' = "raised" /\ err' = "ValueError" /\ tree' = tree
       ELSE pc' = "header" /\ err' = err /\ tree' = OperatorTree(edges)
    /\ UNCHANGED <<cfgvars, objvars, callvars, seqvars, edges, n_iter, runvars>>

\* dict iteration over the shared data: one add per key
RECURSIVE AddAll(_, _)
AddAll(mem, data) ==
    IF DOMAIN data = {} THEN mem
    ELSE LET k == CHOOSE x \in DOMAIN data : TRUE
         IN  AddAll(Add(mem, k, data[k]),
                    [x \in DOMAIN data \ {k} |-> data[x]])

\* Controller._process_header, lines 139-143: the shared data of the header
\* is added to the memory; this ends Controller.__init__
ProcessHeader ==
    /\ pc = "header"
    /\ memory' = AddAll(memory, shared_data)
    /\ pc' = "created"
    /\ UNCHANGED <<cfgvars, objvars, callvars, seqvars, err, netvars, completed, jobs, init, operators,
                   processors, operator_map, spawned>>

(***************************************************************************)
(* Jobs (governor/runtime/job.py) and the inputs of an operator            *)
(***************************************************************************)
\* input_params[key] = value
Put(input_params, key, value) ==
    [k \in DOMAIN input_params \cup {key} |->
        IF k = key THEN value ELSE input_params[k]]

\* isinstance(value, type(initial))
IsInstance(value, initial) == value.type = initial.type

\* what _compile_operator_input_params has reached: the exception raised,
\* if any, the input parameters bound, and the memory
Compiled(exception, input_params, mem) ==
    [err |-> exception, input_params |-> input_params, memory |-> mem]

\* _compile_operator_input_params, lines 417-424 and 431-437, with the
\* alias left out: the value is bound under the name of its source
BindBySource(r, parameter) ==
    IF parameter.err # ""
    THEN Compiled(parameter.err, NoParams, r.memory)
    ELSE IF Exists(r.memory, parameter.source)
    THEN Compiled("", Put(r.input_params, parameter.source,
                          r.memory[parameter.source]), r.memory)
    ELSE Compiled("MemoryError", NoParams, r.memory)

\* _compile_operator_input_params, lines 417-424 and 431-437: the value the
\* memory holds for the source is bound under the alias; an exception of
\* _get_shared_parameter_as ends the compilation
Bind(r, parameter) ==
    IF parameter.err # ""
    THEN Compiled(parameter.err, NoParams, r.memory)
    ELSE IF Exists(r.memory, parameter.source)
    THEN Compiled("", Put(r.input_params, parameter.as_,
                          r.memory[parameter.source]), r.memory)
    ELSE Compiled("MemoryError", NoParams, r.memory)

\* _compile_operator_input_params, lines 415-441: the instructions of the
\* list form one after the other, and the one of the string form
RECURSIVE BindSharedList(_, _)
BindSharedList(r, names) ==
    IF names = <<>> \/ r.err # "" THEN r
    ELSE BindSharedList(Bind(r, GetSharedParameterAs(Head(names))),
                        Tail(names))

\* _compile_operator_input_params, lines 446-464, without the test of
\* shared_input_init_only
InitSharedAlways(r, name_, initial, init_only) ==
    IF ~Exists(r.memory, name_)
    THEN Compiled("", Put(r.input_params, name_, initial),
                  Add(r.memory, name_, initial))
    ELSE IF ~IsInstance(r.memory[name_], initial)
    THEN Compiled("ValueError", NoParams, r.memory)
    ELSE Compiled("", Put(r.input_params, name_, r.memory[name_]), r.memory)

\* _compile_operator_input_params, lines 446-464: one name of the mapping
\* form is added to the memory with its initial value when the memory does
\* not hold it, and is bound to the value the memory holds
InitShared(r, name_, initial, init_only) ==
    IF ~Exists(r.memory, name_)
    THEN Compiled("", Put(r.input_params, name_, initial),
                  Add(r.memory, name_, initial))
    ELSE IF ~IsInstance(r.memory[name_], initial)
    THEN Compiled("ValueError", NoParams, r.memory)
    ELSE IF init_only
    THEN Compiled("MemoryError", NoParams, r.memory)
    ELSE Compiled("", Put(r.input_params, name_, r.memory[name_]), r.memory)

\* _compile_operator_input_params, lines 443-468: the mapping form
RECURSIVE InitSharedDict(_, _, _, _)
InitSharedDict(r, names, values, init_only) ==
    IF names = <<>> \/ r.err # "" THEN r
    ELSE InitSharedDict(InitShared(r, Head(names), Head(values), init_only),
                        Tail(names), Tail(values), init_only)

\* Controller._compile_operator_input_params
CompileOperatorInputParams(cfg, mem) ==
    LET input_ == cfg.shared_input_params
        dedicated == Compiled("", cfg.dedicated_input_params, mem)
    IN  IF input_.kind \in {"str", "list"}
        THEN BindSharedList(dedicated, input_.names)
        ELSE IF input_.kind = "dict"
        THEN InitSharedDict(dedicated, input_.names, input_.values,
                            cfg.shared_input_init_only)
        ELSE dedicated

\* _operator_settings, lines 389-392: the input parameters are compiled
\* once more when the first compilation binds any
CompileAgain(cfg, tested) ==
    IF tested.err # "" \/ DOMAIN tested.input_params = {} THEN tested
    ELSE CompileOperatorInputParams(cfg, tested.memory)

\* Controller._operator_settings
OperatorSettings(cfg, mem) ==
    CompileAgain(cfg, CompileOperatorInputParams(cfg, mem))

\* Controller._get_operator: a new operator with the compiled settings
GetOperator(ops, id, mem) == OperatorSettings(OperatorCfg(ops, id), mem)

\* Job.__init__ that sets more repetitions than an operator is given
JobOfManyRepeats(id, operator) ==
    [id_ |-> id, repeat |-> MaxRepeat + 1, online |-> FALSE,
     input_params |-> operator.input_params]

\* Job.__init__
Job(id, operator) ==
    [id_ |-> id, repeat |-> 1, online |-> FALSE,
     input_params |-> operator.input_params]

JobIds(js) == {js[i].id_ : i \in 1..Len(js)}

\* Jobs.get
JobIndex(js, id) == CHOOSE i \in 1..Len(js) : js[i].id_ = id

\* Jobs.add
JobsAdd(js, job) == IF job.id_ \notin JobIds(js) THEN Append(js, job) ELSE js

\* Jobs.delete
JobsDelete(js, id) == SelectSeq(js, LAMBDA j : j.id_ # id)

\* Jobs.num_jobs
NumJobs(js) == Len(js)

\* Job.repeat (setter), lines 71-73
SetRepeat(job, value) == [job EXCEPT !.repeat = IF value >= 0 THEN value ELSE 0]

\* Job.completed_repetition
CompletedRepetition(job) == SetRepeat(job, job.repeat - 1)

\* the loops that add a job for each of ids (controller.py, lines 222-227
\* and 329-336); the first failing _get_operator ends the loop
RECURSIVE AddJobs(_, _, _, _, _)
\* jobs.add of the operator that _get_operator has returned, or its exception
AddJob(ops, js, ids, unless_present, operator) ==
    IF operator.err # ""
    THEN [err |-> operator.err, jobs |-> js, memory |-> operator.memory]
    ELSE AddJobs(ops, JobsAdd(js, Job(Head(ids), operator)),
                 operator.memory, Tail(ids), unless_present)

AddJobs(ops, js, mem, ids, unless_present) ==
    IF ids = <<>> THEN [err |-> "", jobs |-> js, memory |-> mem]
    ELSE IF unless_present /\ Head(ids) \in JobIds(js)
         THEN AddJobs(ops, js, mem, Tail(ids), unless_present)
    ELSE AddJob(ops, js, ids, unless_present,
                GetOperator(ops, Head(ids), mem))

(***************************************************************************)
(* Processors (governor/runtime/multiprocessing.py)                        *)
(***************************************************************************)
\* the value an operator returns in its run-th run
ReturnValue(id, run) == [op |-> id, run |-> run, type |-> "object"]

\* OperatorProcess with its events and its return queue
NewProcess(has_queue, run) ==
    [state |-> "spawned", start |-> FALSE, done |-> FALSE, error |-> FALSE,
     has_queue |-> has_queue, queue |-> <<>>, closed |-> FALSE,
     run |-> run, outcome |-> "none"]

\* Processor.__init__, create_processes and start_processes
Processor(ids, expected_returns, runs) ==
    [operator_ids |-> ids,
     processes |-> [id \in Range(ids) |->
                      NewProcess(expected_returns[id], runs[id])]]

\* Processor.all_done
AllDone(processor) ==
    \A id \in Range(processor.operator_ids) : processor.processes[id].done

Max(S) == CHOOSE x \in S : \A y \in S : y <= x

\* Processors.create, lines 508-512: the identifier of a new processor
NewProcessorId(procs) ==
    IF DOMAIN procs = {} THEN 1 ELSE Max(DOMAIN procs) + 1

\* dict[key] = value on a dictionary kept in insertion order
RECURSIVE MapSet(_, _, _)
MapSet(m, op, proc) ==
    IF m = <<>> THEN <<[op |-> op, proc |-> proc]>>
    ELSE IF Head(m).op = op THEN <<[op |-> op, proc |-> proc]>> \o Tail(m)
    ELSE <<Head(m)>> \o MapSet(Tail(m), op, proc)

RECURSIVE MapSetAll(_, _, _)
MapSetAll(m, ids, proc) ==
    IF ids = <<>> THEN m
    ELSE MapSetAll(MapSet(m, Head(ids), proc), Tail(ids), proc)

\* the operators of the processors of which every process is done
DoneOperatorsOfDoneProcessors(procs, m) ==
    LET ids == [i \in 1..Len(m) |-> m[i].op]
    IN  SelectSeq(ids, LAMBDA id :
            LET e == m[CHOOSE i \in 1..Len(m) : m[i].op = id]
            IN  AllDone(procs[e.proc]))

\* Processors.done_operators
DoneOperators(procs, m) ==
    LET ids == [i \in 1..Len(m) |-> m[i].op]
    IN  SelectSeq(ids, LAMBDA id :
            LET e == m[CHOOSE i \in 1..Len(m) : m[i].op = id]
            IN  procs[e.proc].processes[id].done)

\* Processors.any_errors
AnyErrors(procs, m) ==
    \E i \in 1..Len(m) : procs[m[i].proc].processes[m[i].op].error

\* Processors.full_operator_match
FullOperatorMatch(procs, operator_ids) ==
    IF operator_ids = <<>> THEN {}
    ELSE {p \in DOMAIN procs :
            Range(procs[p].operator_ids) \subseteq Range(operator_ids)}

\* Processors.terminate(proc_id) that deletes the operators of the processor
\* from the operator map and keeps the processor
TerminateOperatorsOnly(procs, m, ps) ==
    [procs |-> procs,
     map |-> SelectSeq(m, LAMBDA e : e.proc \notin ps)]

\* Processors.terminate(proc_id) for each processor of ps
TerminateAll(procs, m, ps) ==
    [procs |-> [p \in DOMAIN procs \ ps |-> procs[p]],
     map |-> SelectSeq(m, LAMBDA e : e.proc \notin ps)]

(***************************************************************************)
(* Parallel run: Controller._run_parallel and _run_multiprocessing         *)
(***************************************************************************)
Raise(exception) == pc' = "raised" /\ err' = exception

\* Controller.run and _run_parallel: a job for every successor of the null
\* operator
\* the operators _get_operator has returned when the jobs js become js_
Instantiate(js, js_) ==
    [id \in DOMAIN instantiated |->
        IF id \in JobIds(js_) \ JobIds(js) THEN instantiated[id] + 1
        ELSE instantiated[id]]

RunParallel ==
    /\ pc = "created"
    /\ parallelize
    /\ IF NULL \notin DOMAIN tree
       THEN /\ Raise("KeyError") /\ jobs' = jobs /\ memory' = memory
            /\ instantiated' = instantiated
       ELSE LET r == AddJobs(config, <<>>, memory, tree[NULL], FALSE)
            IN  /\ jobs' = r.jobs
                /\ memory' = r.memory
                /\ instantiated' = Instantiate(<<>>, r.jobs)
                /\ IF r.err # "" THEN Raise(r.err)
                   ELSE pc' = "cycle" /\ err' = err
    /\ init' = TRUE
    /\ UNCHANGED <<cfgvars, objvars, callvars, sequence, seq_runs, executed, netvars,
                   completed, operators, processors, operator_map, spawned>>

\* Blocked with the test of a run_after that is a single id inverted
BlockedWhenCompleted(job) ==
    LET run_after == OperatorCfg(config, job.id_).run_after
    IN  /\ ~init
        /\ \/ run_after.kind = "str" /\ run_after.ids[1] \in Range(completed)
           \/ run_after.kind = "list"
              /\ ~(Range(run_after.ids) \subseteq Range(completed))

\* Blocked without the test of a run_after that is a single id
BlockedByListOnly(job) ==
    LET run_after == OperatorCfg(config, job.id_).run_after
    IN  /\ ~init
        /\ run_after.kind = "list"
        /\ ~(Range(run_after.ids) \subseteq Range(completed))

\* _run_multiprocessing, lines 252-261: the job waits for its run_after
Blocked(job) ==
    LET run_after == OperatorCfg(config, job.id_).run_after
    IN  /\ ~init
        /\ \/ run_after.kind = "str" /\ run_after.ids[1] \notin Range(completed)
           \/ run_after.kind = "list"
              /\ ~(Range(run_after.ids) \subseteq Range(completed))

\* a dispatch loop that does not skip the jobs that are online
DispatchOnline ==
    /\ pc = "cycle"
    /\ LET Ready(job) == ~Blocked(job)
           ids == [i \in 1..Len(SelectSeq(jobs, Ready)) |->
                        SelectSeq(jobs, Ready)[i].id_]
           expected_returns ==
               [id \in Range(ids) |-> OperatorCfg(config, id).save_output]
           new_proc_id == NewProcessorId(processors)
           runs == [id \in Range(ids) |-> spawned[id] + 1]
       IN  /\ jobs' = [i \in DOMAIN jobs |->
                         IF Ready(jobs[i]) THEN [jobs[i] EXCEPT !.online = TRUE]
                         ELSE jobs[i]]
           /\ operators' = ids
           /\ IF ids = <<>>
              THEN UNCHANGED <<processors, operator_map, spawned>>
              ELSE /\ processors' = processors @@
                        (new_proc_id :> Processor(ids, expected_returns, runs))
                   /\ operator_map' = MapSetAll(operator_map, ids, new_proc_id)
                   /\ spawned' = [id \in DOMAIN spawned |->
                                    IF id \in Range(ids) THEN spawned[id] + 1
                                    ELSE spawned[id]]
    /\ pc' = "poll"
    /\ UNCHANGED <<cfgvars, objvars, callvars, seqvars, err, netvars, memory, completed, init>>

\* _run_multiprocessing, lines 245-284: the jobs that are neither blocked
\* nor online go online and are started in the processes of a new processor
Dispatch ==
    /\ pc = "cycle"
    /\ LET Ready(job) == ~Blocked(job) /\ ~job.online
           ids == [i \in 1..Len(SelectSeq(jobs, Ready)) |->
                        SelectSeq(jobs, Ready)[i].id_]
           expected_returns ==
               [id \in Range(ids) |-> OperatorCfg(config, id).save_output]
           new_proc_id == NewProcessorId(processors)
           runs == [id \in Range(ids) |-> spawned[id] + 1]
       IN  /\ jobs' = [i \in DOMAIN jobs |->
                         IF Ready(jobs[i]) THEN [jobs[i] EXCEPT !.online = TRUE]
                         ELSE jobs[i]]
           /\ operators' = ids
           /\ IF ids = <<>>
              THEN UNCHANGED <<processors, operator_map, spawned>>
              ELSE /\ processors' = processors @@
                        (new_proc_id :> Processor(ids, expected_returns, runs))
                   /\ operator_map' = MapSetAll(operator_map, ids, new_proc_id)
                   /\ spawned' = [id \in DOMAIN spawned |->
                                    IF id \in Range(ids) THEN spawned[id] + 1
                                    ELSE spawned[id]]
    /\ pc' = "poll"
    /\ UNCHANGED <<cfgvars, objvars, callvars, seqvars, err, netvars, memory, completed, init>>

\* OperatorProcess.run, lines 127-133: the start event is set
ProcessStart(p, id) ==
    /\ p \in DOMAIN processors
    /\ id \in DOMAIN processors[p].processes
    /\ processors[p].processes[id].state = "spawned"
    /\ processors' = [processors EXCEPT ![p].processes[id] =
                        [@ EXCEPT !.state = "started", !.start = TRUE]]
    /\ UNCHANGED <<cfgvars, objvars, callvars, seqvars, pc, err, netvars, memory, completed, jobs, init,
                   operators, operator_map, spawned>>

\* OperatorProcess.run of a process that writes the value its operator
\* returns into the shared memory
ProcessRunSaving(p, id, outcome) ==
    /\ p \in DOMAIN processors
    /\ id \in DOMAIN processors[p].processes
    /\ processors[p].processes[id].state = "started"
    /\ processors' = [processors EXCEPT ![p].processes[id] =
          IF outcome = "returned" /\ ~@.has_queue
          THEN [@ EXCEPT !.state = "exited", !.outcome = outcome,
                         !.done = TRUE]
          ELSE [@ EXCEPT !.state = "crashed", !.outcome = outcome]]
    /\ memory' = MemUpdate(memory, Name(id),
                           ReturnValue(id, processors[p].processes[id].run),
                           TRUE)
    /\ UNCHANGED <<cfgvars, objvars, callvars, seqvars, pc, err, netvars, completed,
                   jobs, init, operators, operator_map, spawned>>

\* OperatorProcess.run, lines 141-160, with Operator.run: the operator
\* returns or raises.  Without a return queue a return sets the done event;
\* with a return queue the process reads .response of the result of
\* Operator.run, which is None, and ends with an AttributeError.  When the
\* operator raises, the handler of RuntimeError ends with an AttributeError
\* (put on the missing queue, or the attribute exceptione of the operator).
\* A process that ends with an exception sets no event.
ProcessRun(p, id, outcome) ==
    /\ p \in DOMAIN processors
    /\ id \in DOMAIN processors[p].processes
    /\ processors[p].processes[id].state = "started"
    /\ processors' = [processors EXCEPT ![p].processes[id] =
          IF outcome = "returned" /\ ~@.has_queue
          THEN [@ EXCEPT !.state = "exited", !.outcome = outcome,
                         !.done = TRUE]
          ELSE [@ EXCEPT !.state = "crashed", !.outcome = outcome]]
    /\ UNCHANGED <<cfgvars, objvars, callvars, seqvars, pc, err, netvars, memory, completed, jobs, init,
                   operators, operator_map, spawned>>

\* Processor.return_value of the operator id: the next item of its queue
QueueOf(procs, m, id) ==
    procs[m[CHOOSE i \in 1..Len(m) : m[i].op = id].proc].processes[id]

QueueGet(procs, m, id) ==
    [procs EXCEPT ![m[CHOOSE i \in 1..Len(m) : m[i].op = id].proc]
                        .processes[id].queue = Tail(@)]

\* _run_multiprocessing, lines 306-342: the done operator id is processed;
\* st holds the memory, jobs, completed and processors reached so far
HarvestOne(st, id) ==
    LET cfg == OperatorCfg(config, id)
        process == QueueOf(st.processors, operator_map, id)
        saved ==
            IF ~cfg.save_output THEN st
            ELSE IF ~process.has_queue THEN [st EXCEPT !.err = "TypeError"]
            ELSE IF process.queue = <<>> THEN [st EXCEPT !.err = "blocked"]
            ELSE [st EXCEPT
                    !.memory = MemUpdate(@, StorageName(cfg),
                                         Head(process.queue), TRUE),
                    !.processors = QueueGet(@, operator_map, id)]
        idx == JobIndex(st.jobs, id)
        job == CompletedRepetition(st.jobs[idx])
    IN  IF saved.err # "" THEN saved
        ELSE IF job.repeat > 0
        THEN [saved EXCEPT !.jobs = [@ EXCEPT ![idx] =
                                        [job EXCEPT !.online = FALSE]]]
        ELSE LET js == [saved.jobs EXCEPT ![idx] = job]
                 added == IF id \in DOMAIN tree
                          THEN AddJobs(config, js, saved.memory, tree[id], TRUE)
                          ELSE [err |-> "", jobs |-> js,
                                memory |-> saved.memory]
             IN  IF added.err # ""
                 THEN [saved EXCEPT !.err = added.err, !.jobs = added.jobs,
                                    !.memory = added.memory]
                 ELSE [saved EXCEPT
                         !.memory = added.memory,
                         !.jobs = JobsDelete(added.jobs, id),
                         !.completed = Append(@, id)]

RECURSIVE Harvest(_, _)
Harvest(st, ids) ==
    IF ids = <<>> \/ st.err # "" THEN st
    ELSE Harvest(HarvestOne(st, Head(ids)), Tail(ids))

\* _run_multiprocessing, lines 291-357: one pass of the blocking loop, and
\* when it ends the loop, the return or the next call of the recursion.  A
\* call that finds no processor and nothing to start is repeated unchanged
\* by the recursion, which ends in a RecursionError.
Poll ==
    /\ pc = "poll"
    /\ IF \E i \in 1..Len(operator_map) :
             operator_map[i].proc \notin DOMAIN processors
       THEN /\ Raise("KeyError")
            /\ UNCHANGED <<memory, completed, jobs, init, operators,
                           processors, operator_map>>
       ELSE IF AnyErrors(processors, operator_map)
       THEN /\ Raise("ValueError")
            /\ processors' = NoProcessors
            /\ operator_map' = <<>>
            /\ operators' = <<>>
            /\ UNCHANGED <<memory, completed, jobs, init>>
       ELSE LET completed_operators == DoneOperators(processors, operator_map)
                new_completed_operators ==
                    SelectSeq(completed_operators,
                              LAMBDA id : id \in JobIds(jobs))
                h == Harvest([err |-> "", memory |-> memory, jobs |-> jobs,
                              completed |-> completed,
                              processors |-> processors],
                             new_completed_operators)
                matched ==
                    IF new_completed_operators = <<>> THEN {}
                    ELSE {p \in FullOperatorMatch(h.processors,
                                                  completed_operators) :
                            AllDone(h.processors[p])}
                t == TerminateAll(h.processors, operator_map, matched)
            IN  /\ memory' = h.memory
                /\ jobs' = h.jobs
                /\ completed' = h.completed
                /\ operators' = operators
                /\ IF h.err = "blocked"
                   THEN /\ pc' = "blocked" /\ err' = err /\ init' = init
                        /\ processors' = h.processors
                        /\ operator_map' = operator_map
                   ELSE IF h.err # ""
                   THEN /\ Raise(h.err) /\ init' = init
                        /\ processors' = h.processors
                        /\ operator_map' = operator_map
                   ELSE /\ processors' = t.procs
                        /\ operator_map' = t.map
                        /\ IF new_completed_operators = <<>>
                              /\ DOMAIN t.procs # {}
                           THEN pc' = "poll" /\ err' = err /\ init' = init
                           ELSE IF NumJobs(h.jobs) = 0
                           THEN pc' = "done" /\ err' = err /\ init' = init
                           ELSE IF new_completed_operators = <<>>
                           THEN Raise("RecursionError") /\ init' = init
                           ELSE pc' = "cycle" /\ err' = err /\ init' = FALSE
    /\ instantiated' = Instantiate(jobs, jobs')
    /\ UNCHANGED <<cfgvars, objvars, callvars, sequence, seq_runs, executed, netvars,
                   spawned>>

NetNext == ApplyRunAfter \/ CreateTree \/ ProcessHeader

InitNet == NetConfig /\ parallelize = TRUE /\ InitVars

NetSpec == InitNet /\ [][NetNext]_vars

\* the networks of the configurations whose run_after are absent or single
\* identifiers of the configuration
InitNetSingle ==
    /\ \E n \in 1..MaxNetOps :
          \E ras \in [1..n -> {NoneRA} \cup {StrRA(u) : u \in Range(IdsOf(n))}] :
              config = Configuration(n, ras, DefaultSettings(n), FALSE)
    /\ shared_data = NoSharedData
    /\ parallelize = TRUE
    /\ InitVars

NetSingleSpec == InitNetSingle /\ [][NetNext]_vars

(***************************************************************************)
(* The controller: construction, then a parallel run                       *)
(***************************************************************************)
Next ==
    \/ ApplyRunAfter
    \/ CreateTree
    \/ ProcessHeader
    \/ RunParallel
    \/ Dispatch
    \/ Poll
    \/ \E p \in DOMAIN processors : \E id \in DOMAIN processors[p].processes :
          ProcessStart(p, id)
    \/ \E p \in DOMAIN processors : \E id \in DOMAIN processors[p].processes :
          \E outcome \in {"returned", "raised"} : ProcessRun(p, id, outcome)

Init == RunConfig(MaxOps) /\ parallelize = TRUE /\ InitVars

Spec == Init /\ [][Next]_vars

\* the run_after settings of n operators of which each follows the operator
\* before it in the payload, or names one of the operators before it
EarlierSettings(n) ==
    {f \in [1..n -> {NoneRA} \cup {StrRA(id) : id \in Range(IdsOf(n))}] :
        \A i \in 1..n :
            f[i] # NoneRA => \E j \in 1..(i - 1) : f[i] = StrRA(AllIds[j])}

InitGroups ==
    /\ \E n \in 1..MaxGroupOps : \E ras \in EarlierSettings(n) :
          config = Configuration(n, ras, DefaultSettings(n), FALSE)
    /\ shared_data = NoSharedData
    /\ parallelize = TRUE
    /\ InitVars

\* parallel runs of these configurations
GroupSpec == InitGroups /\ [][Next]_vars

\* parallel runs of the configurations that differ from the defaults in
\* run_after only
InitRunAfter ==
    /\ \E n \in 1..MaxOps : \E ras \in RunAfterSettings(n) :
          config = Configuration(n, ras, DefaultSettings(n), FALSE)
    /\ shared_data = NoSharedData
    /\ parallelize = TRUE
    /\ InitVars

RunAfterSpec == InitRunAfter /\ [][Next]_vars

\* parallel runs of the configurations whose run_after settings name
\* earlier operators only, with save_output, repeats and readers
InitSettings ==
    /\ \E n \in 1..MaxOps : \E ras \in EarlierSettings(n) :
          \E st \in Settings(n) :
              \/ /\ config = Configuration(n, ras, st, FALSE)
                 /\ shared_data = NoSharedData
              \/ /\ config = Configuration(n, ras, st, TRUE)
                 /\ shared_data \in {NoSharedData, SharedData}
    /\ parallelize = TRUE
    /\ InitVars

SettingsSpec == InitSettings /\ [][Next]_vars

\* the steps of the controller
ControllerNext ==
    \/ ApplyRunAfter
    \/ CreateTree
    \/ ProcessHeader
    \/ RunParallel
    \/ Dispatch
    \/ Poll

\* the configuration of an operator, two operators that run after it, and
\* k operators that follow the second of them one after the other
FollowerConfiguration(k) ==
    Configuration(3 + k,
                  [i \in 1..(3 + k) |->
                      IF i \in {2, 3} THEN StrRA("A") ELSE NoneRA],
                  DefaultSettings(3 + k), FALSE)

InitFollowers ==
    /\ \E k \in 0..MaxFollowers : config = FollowerConfiguration(k)
    /\ shared_data = NoSharedData
    /\ parallelize = TRUE
    /\ InitVars

\* the controller keeps running; an operator may run without end
GroupFairSpec == InitFollowers /\ [][Next]_vars /\ WF_vars(ControllerNext)

InitLive == RunConfig(MaxLiveOps) /\ parallelize = TRUE /\ InitVars

\* the controller and the started processes keep running
FairSpec == InitLive /\ [][Next]_vars /\ WF_vars(Next)

\* configurations of at most MaxOps operators in which a run_after names
\* an identifier that no operator has
UnknownConfig ==
    /\ \E n \in 1..MaxOps : \E ras \in UnknownSettings(n) :
          config = Configuration(n, ras, DefaultSettings(n), FALSE)
    /\ shared_data = NoSharedData

InitUnknown == UnknownConfig /\ parallelize = TRUE /\ InitVars

UnknownSpec == InitUnknown /\ [][Next]_vars

(***************************************************************************)
(* Sequential run: Controller._run_sequential                              *)
(***************************************************************************)
\* Network.operator_sequence, lines 100-106: the sources and targets of the
\* edges from the idx-th on, a target written as the run_after of one id
RECURSIVE OperatorSequenceFrom(_, _, _)
OperatorSequenceFrom(e, idx, sequence_) ==
    IF idx > Len(e) THEN sequence_
    ELSE IF idx = 1 \/ e[idx].source # sequence_[Len(sequence_)]
    THEN OperatorSequenceFrom(e, idx + 1,
             sequence_ \o <<e[idx].source, StrRA(e[idx].target)>>)
    ELSE OperatorSequenceFrom(e, idx + 1,
             Append(sequence_, StrRA(e[idx].target)))

\* Network.operator_sequence
OperatorSequence(ops, e) ==
    IF OperatorSequenceFrom(e, 1, <<>>) = <<>> /\ Len(ops) + 1 = 1
    THEN <<StrRA(NULL)>>
    ELSE OperatorSequenceFrom(e, 1, <<>>)

\* Controller.run, lines 159-161, and _run_sequential, line 168
RunSequential ==
    /\ pc = "created"
    /\ ~parallelize
    /\ sequence' = OperatorSequence(config, edges)
    /\ pc' = "sequence"
    /\ UNCHANGED <<cfgvars, objvars, callvars, seq_runs, executed, instantiated, err,
                   netvars, runvars>>

\* the operator _run_sequential holds when none is created
NotCreated(mem) == Compiled("", NoParams, mem)

\* _run_sequential, lines 168-190: the next entry of the sequence; the null
\* operator is passed over, and the operator of an entry is created here
\* when it is not reinitialized in its repeats
SequentialOperator ==
    /\ pc = "sequence"
    /\ IF sequence = <<>>
       THEN /\ pc' = "done" /\ err' = err
            /\ UNCHANGED <<sequence, seq_runs, instantiated, memory, handle>>
       ELSE IF Head(sequence).kind # "str"
       THEN /\ Raise("TypeError")
            /\ UNCHANGED <<sequence, seq_runs, instantiated, memory, handle>>
       ELSE IF Head(sequence).ids[1] = NULL
       THEN /\ sequence' = Tail(sequence)
            /\ UNCHANGED <<pc, err, seq_runs, instantiated, memory, handle>>
       ELSE IF Head(sequence).ids[1] \notin
                    {config[i].id_ : i \in 1..Len(config)}
       THEN /\ Raise("KeyError")
            /\ UNCHANGED <<sequence, seq_runs, instantiated, memory, handle>>
       ELSE LET id_ == Head(sequence).ids[1]
                cfg == OperatorCfg(config, id_)
                operator == IF ~cfg.reinitialize_in_repeats
                            THEN GetOperator(config, id_, memory)
                            ELSE NotCreated(memory)
            IN  /\ memory' = operator.memory
                /\ sequence' = sequence
                /\ IF operator.err # ""
                   THEN /\ Raise(operator.err)
                        /\ UNCHANGED <<seq_runs, instantiated, handle>>
                   ELSE /\ pc' = "runs" /\ err' = err
                        /\ seq_runs' = cfg.repeat
                        /\ handle' = IF ~cfg.reinitialize_in_repeats
                                     THEN NewOperator ELSE handle
                        /\ instantiated' =
                              IF ~cfg.reinitialize_in_repeats
                              THEN [instantiated EXCEPT ![id_] = @ + 1]
                              ELSE instantiated
    /\ UNCHANGED <<cfgvars, dedicated_, ids_, callvars, executed, netvars, completed, jobs,
                   init, operators, processors, operator_map, spawned>>

\* Operator.run, _run_init and _run_close: the state is ONLINE whatever it
\* was, then the operator returns or raises
RunStates(operator, outcome) ==
    IF outcome = "raised"
    THEN [operator EXCEPT !.states = @ \o <<"ONLINE", "ERROR">>,
                          !.exception = "repr(err)"]
    ELSE [operator EXCEPT !.states = @ \o <<"ONLINE", "COMPLETED">>,
                          !.response = "response"]

\* Operator.reset
Reset(operator) ==
    [operator EXCEPT !.states = Append(@, "OFFLINE"),
                     !.exception = "", !.response = "None"]

\* Operator.run that returns the operator
OperatorRunReturningSelf(operator, outcome) ==
    [err |-> IF outcome = "raised" THEN "RuntimeError" ELSE "",
     returns |-> "response",
     operator |-> RunStates(operator, outcome)]

\* Operator.run: the operator returns or raises; run() itself returns None
OperatorRun(operator, outcome) ==
    [err |-> IF outcome = "raised" THEN "RuntimeError" ELSE "",
     returns |-> "None",
     operator |-> RunStates(operator, outcome)]

\* _run_sequential, lines 192-209: one pass of the loop over the runs of an
\* operator: the operator is created when it is reinitialized in its
\* repeats, it is run, .response of what Operator.run returns is saved
\* under the storage name or dropped, and the run is logged; and the end of
\* the loop
SequentialRun(outcome) ==
    /\ pc = "runs"
    /\ LET id_ == Head(sequence).ids[1]
           cfg == OperatorCfg(config, id_)
           operator == IF cfg.reinitialize_in_repeats
                       THEN GetOperator(config, id_, memory)
                       ELSE NotCreated(memory)
           result == OperatorRun(IF cfg.reinitialize_in_repeats
                                 THEN NewOperator ELSE handle, outcome)
       IN  IF seq_runs <= 0
           THEN /\ sequence' = Tail(sequence)
                /\ pc' = "sequence"
                /\ UNCHANGED <<err, seq_runs, executed, instantiated, memory,
                               handle>>
           ELSE IF operator.err # ""
           THEN /\ Raise(operator.err)
                /\ memory' = operator.memory
                /\ UNCHANGED <<sequence, seq_runs, executed, instantiated,
                               handle>>
           ELSE /\ handle' = result.operator
                /\ instantiated' =
                      IF cfg.reinitialize_in_repeats
                      THEN [instantiated EXCEPT ![id_] = @ + 1]
                      ELSE instantiated
                /\ sequence' = sequence
                /\ IF result.err # ""
                   THEN /\ Raise(result.err)
                        /\ memory' = operator.memory
                        /\ UNCHANGED <<seq_runs, executed>>
                   ELSE IF result.returns = "None"
                   THEN /\ Raise("AttributeError")
                        /\ memory' = operator.memory
                        /\ UNCHANGED <<seq_runs, executed>>
                   ELSE /\ memory' =
                              IF cfg.save_output
                              THEN MemUpdate(operator.memory, StorageName(cfg),
                                             result.returns, TRUE)
                              ELSE operator.memory
                        /\ executed' = Append(executed, id_)
                        /\ seq_runs' = seq_runs - 1
                        /\ UNCHANGED <<pc, err>>
    /\ UNCHANGED <<cfgvars, dedicated_, ids_, callvars, netvars, completed, jobs, init,
                   operators, processors, operator_map, spawned>>

(***************************************************************************)
(* The controller: construction, then a sequential run                     *)
(***************************************************************************)
InitSequential == RunConfig(MaxOps) /\ parallelize = FALSE /\ InitVars

SequentialNext ==
    \/ NetNext
    \/ RunSequential
    \/ SequentialOperator
    \/ \E outcome \in {"returned", "raised"} : SequentialRun(outcome)

SequentialSpec == InitSequential /\ [][SequentialNext]_vars

(***************************************************************************)
(* An operator that _run_sequential runs, or that is called directly       *)
(***************************************************************************)
\* configurations of at most MaxLiveOps operators run in sequential mode, of
\* which the first is repeated and is reinitialized in its repeats or not
SequentialConfig ==
    /\ \E n \in 1..MaxLiveOps : \E repeat \in 1..MaxRepeat :
       \E save \in {"no", "id"} : \E reinitialize \in BOOLEAN :
          config =
              [Configuration(n, [i \in 1..n |-> NoneRA],
                             [i \in 1..n |-> IF i = 1 THEN Setting(save, repeat)
                                             ELSE DefaultSetting], FALSE)
                  EXCEPT ![1].reinitialize_in_repeats = reinitialize]
    /\ shared_data = NoSharedData
    /\ parallelize = FALSE

\* a new operator that no controller holds
InitOperator ==
    /\ handle = NewOperator
    /\ dedicated_ = EmptyMemory
    /\ pc = "operator"
    /\ err = ""
    /\ config = <<>>
    /\ shared_data = NoSharedData
    /\ parallelize = FALSE
    /\ ids_ = <<>>
    /\ parameter_instruction = <<>>
    /\ parsed = NotParsed
    /\ calls = <<>>
    /\ sequence = <<>>
    /\ seq_runs = 0
    /\ executed = <<>>
    /\ instantiated = [id \in Range(AllIds) |-> 0]
    /\ edges = <<>>
    /\ n_iter = 0
    /\ tree = EmptyTree
    /\ memory = EmptyMemory
    /\ completed = <<>>
    /\ jobs = <<>>
    /\ init = TRUE
    /\ operators = <<>>
    /\ processors = NoProcessors
    /\ operator_map = <<>>
    /\ spawned = [id \in Range(AllIds) |-> 0]

InitHandle == (SequentialConfig /\ InitVars) \/ InitOperator

\* a call of Operator.run on the operator
CallRun(outcome) ==
    /\ pc = "operator"
    /\ Len(calls) < MaxCalls + 1
    /\ handle' = OperatorRun(handle, outcome).operator
    /\ calls' = Append(calls, "run")
    /\ UNCHANGED <<cfgvars, dedicated_, ids_, seqvars, parameter_instruction, parsed, pc,
                   err, netvars, runvars>>

\* a call of Operator.reset on the operator
CallReset ==
    /\ pc = "operator"
    /\ Len(calls) < MaxCalls + 1
    /\ handle' = Reset(handle)
    /\ calls' = Append(calls, "reset")
    /\ UNCHANGED <<cfgvars, dedicated_, ids_, seqvars, parameter_instruction, parsed, pc,
                   err, netvars, runvars>>

HandleNext ==
    \/ NetNext
    \/ RunSequential
    \/ SequentialOperator
    \/ \E outcome \in {"returned", "raised"} : SequentialRun(outcome)
    \/ \E outcome \in {"returned", "raised"} : CallRun(outcome)
    \/ CallReset

HandleSpec == InitHandle /\ [][HandleNext]_vars

(***************************************************************************)
(* Runs of an operator that is repeated, in both modes                     *)
(***************************************************************************)
\* configurations of at most MaxLiveOps operators run one after the other,
\* of which the first is repeated, saves its output or not, and is
\* reinitialized in its repeats or not
RepeatConfig ==
    \E n \in 1..MaxLiveOps : \E repeat \in 1..MaxRepeat :
    \E save \in {"no", "id", "name"} : \E reinitialize \in BOOLEAN :
        /\ config =
              [Configuration(n, [i \in 1..n |-> NoneRA],
                             [i \in 1..n |-> IF i = 1 THEN Setting(save, repeat)
                                             ELSE DefaultSetting], FALSE)
                  EXCEPT ![1].reinitialize_in_repeats = reinitialize]
        /\ shared_data = NoSharedData
        /\ parallelize \in BOOLEAN

InitRepeat == RepeatConfig /\ InitVars

RepeatNext ==
    \/ Next
    \/ RunSequential
    \/ SequentialOperator
    \/ \E outcome \in {"returned", "raised"} : SequentialRun(outcome)

\* the controller and the started processes keep running
FairRepeatSpec == InitRepeat /\ [][RepeatNext]_vars /\ WF_vars(RepeatNext)

\* the operators A, B and C, of which B and C run after A, and the operator
\* D declared after them, which carries the given input parameters
FanOutConfiguration(input_) ==
    [Configuration(4, <<NoneRA, StrRA("A"), StrRA("A"), NoneRA>>,
                   DefaultSettings(4), FALSE)
        EXCEPT ![4].shared_input_params = input_]

\* the string and the list forms of the input parameters of a run
RunInputChoices ==
    {NoneIn, StrIn(Name("x")), StrIn(Name("y")),
     ListIn(<<Name("x"), Name("y")>>)}

\* the configurations of the runs whose last operator reads shared input
\* parameters
InputRunConfig ==
    \E input_ \in RunInputChoices :
        /\ \/ \E n \in 1..MaxInputOps :
                 config = InputConfiguration(n, input_, NoParams, FALSE)
           \/ config = FanOutConfiguration(input_)
        /\ shared_data \in SharedDataChoices

InitInput == InputRunConfig /\ parallelize = TRUE /\ InitVars

InputSpec == InitInput /\ [][Next]_vars

(***************************************************************************)
(* A call of _get_shared_parameter_as on some parameter string              *)
(***************************************************************************)
InitParse ==
    /\ parameter_instruction \in StringsOf(MaxPieces) \ {<<>>}
    /\ parsed = NotParsed
    /\ calls = <<>>
    /\ sequence = <<>>
    /\ seq_runs = 0
    /\ executed = <<>>
    /\ instantiated = [id \in Range(AllIds) |-> 0]
    /\ ids_ = <<>>
    /\ handle = NoOperator
    /\ dedicated_ = EmptyMemory
    /\ pc = "parse"
    /\ err = ""
    /\ config = <<>>
    /\ shared_data = NoSharedData
    /\ parallelize = TRUE
    /\ edges = <<>>
    /\ n_iter = 0
    /\ tree = EmptyTree
    /\ memory = EmptyMemory
    /\ completed = <<>>
    /\ jobs = <<>>
    /\ init = TRUE
    /\ operators = <<>>
    /\ processors = NoProcessors
    /\ operator_map = <<>>
    /\ spawned = [id \in Range(AllIds) |-> 0]

CallGetSharedParameterAs ==
    /\ pc = "parse"
    /\ parsed' = GetSharedParameterAs(parameter_instruction)
    /\ pc' = IF parsed'.err = "" THEN "parsed" ELSE "raised"
    /\ err' = parsed'.err
    /\ UNCHANGED <<cfgvars, objvars, seqvars, parameter_instruction, calls, netvars, runvars>>

ParseNext == CallGetSharedParameterAs

ParseSpec == InitParse /\ [][ParseNext]_vars

(***************************************************************************)
(* The identifiers of the operators: Config._validate and Network._build   *)
(***************************************************************************)
\* an operator configuration without id_
NoId == "<None>"

\* the user-defined identifiers, and the strings token_urlsafe returns
UserIds == {"A", "B"}
Tokens == {"A", "T"}

\* configurations of at most MaxIdOps operators with or without id_
IdConfig ==
    /\ \E n \in 1..MaxIdOps : \E ids \in [1..n -> UserIds \cup {NoId}] :
          config = [i \in 1..n |->
                      [Configuration(n, [k \in 1..n |-> NoneRA],
                                     DefaultSettings(n), FALSE)[i]
                          EXCEPT !.id_ = ids[i]]]
    /\ shared_data = NoSharedData

InitIds ==
    /\ IdConfig
    /\ parallelize = TRUE
    /\ pc = "validate"
    /\ err = ""
    /\ ids_ = <<>>
    /\ handle = NoOperator
    /\ dedicated_ = EmptyMemory
    /\ parameter_instruction = <<>>
    /\ parsed = NotParsed
    /\ calls = <<>>
    /\ sequence = <<>>
    /\ seq_runs = 0
    /\ executed = <<>>
    /\ instantiated = [id \in Range(AllIds) |-> 0]
    /\ edges = <<>>
    /\ n_iter = 0
    /\ tree = EmptyTree
    /\ memory = EmptyMemory
    /\ completed = <<>>
    /\ jobs = <<>>
    /\ init = TRUE
    /\ operators = <<>>
    /\ processors = NoProcessors
    /\ operator_map = <<>>
    /\ spawned = [id \in Range(AllIds) |-> 0]

\* Config._validate, lines 213-223: the user-defined identifiers are
\* collected and must differ; ConfigWrapper raises ImportError otherwise
Validate ==
    /\ pc = "validate"
    /\ LET user_ids == SelectSeq([i \in 1..Len(config) |-> config[i].id_],
                                 LAMBDA id : id # NoId)
       IN  IF Len(user_ids) # Cardinality(Range(user_ids))
           THEN Raise("ImportError")
           ELSE pc' = "ids" /\ err' = err
    /\ UNCHANGED <<cfgvars, objvars, callvars, seqvars, netvars, runvars>>

\* Network._create_id: a token is drawn; when it is an identifier of the
\* network, _create_id is called again and what it returns is dropped
CreateId(token) == token

\* Network._build, lines 160-167, with _operator_id: the identifier of the
\* next operator; then lines 169-176: the null operator
OperatorId ==
    /\ pc = "ids"
    /\ IF Len(ids_) < Len(config)
       THEN LET operator_config == config[Len(ids_) + 1]
            IN  IF operator_config.id_ # NoId
                THEN IF operator_config.id_ \notin Range(ids_)
                     THEN /\ ids_' = Append(ids_, operator_config.id_)
                          /\ UNCHANGED <<pc, err>>
                     ELSE Raise("ValueError") /\ ids_' = ids_
                ELSE \E token \in Tokens :
                        /\ ids_' = Append(ids_, CreateId(token))
                        /\ UNCHANGED <<pc, err>>
       ELSE IF NULL \notin Range(ids_)
       THEN /\ ids_' = <<NULL>> \o ids_
            /\ pc' = "ids_done" /\ err' = err
       ELSE Raise("ImportError") /\ ids_' = ids_
    /\ UNCHANGED <<cfgvars, dedicated_, handle, callvars, seqvars, netvars, runvars>>

IdNext == Validate \/ OperatorId

IdSpec == InitIds /\ [][IdNext]_vars

(***************************************************************************)
(* Calls of the methods of a shared memory                                 *)
(***************************************************************************)
\* the identifiers and the data of these calls
MemoryIds == {Name("x"), Name("y")}
MemoryData == {HeaderValueOf(type) : type \in {"int", "str"}}

\* the memories that hold some of the identifiers
Memories ==
    UNION {[ids -> MemoryData] : ids \in SUBSET MemoryIds}

InitMemory ==
    /\ memory \in Memories
    /\ pc = "memory"
    /\ err = ""
    /\ config = <<>>
    /\ shared_data = NoSharedData
    /\ parallelize = TRUE
    /\ parameter_instruction = <<>>
    /\ parsed = NotParsed
    /\ calls = <<>>
    /\ sequence = <<>>
    /\ seq_runs = 0
    /\ executed = <<>>
    /\ instantiated = [id \in Range(AllIds) |-> 0]
    /\ ids_ = <<>>
    /\ handle = NoOperator
    /\ dedicated_ = EmptyMemory
    /\ edges = <<>>
    /\ n_iter = 0
    /\ tree = EmptyTree
    /\ completed = <<>>
    /\ jobs = <<>>
    /\ init = TRUE
    /\ operators = <<>>
    /\ processors = NoProcessors
    /\ operator_map = <<>>
    /\ spawned = [id \in Range(AllIds) |-> 0]

\* a call on the memory, the memory before and after it
MemoryCall(fn, id, data, create, after) ==
    [fn |-> fn, id_ |-> id, data |-> data, create |-> create,
     before |-> memory, after |-> after]

CallAdd(id, data) ==
    /\ pc = "memory"
    /\ Len(calls) < MaxCalls
    /\ memory' = Add(memory, id, data)
    /\ calls' = Append(calls, MemoryCall("add", id, data, FALSE, memory'))
    /\ UNCHANGED <<cfgvars, objvars, seqvars, parameter_instruction, parsed, pc, err,
                   netvars, completed, jobs, init, operators, processors,
                   operator_map, spawned>>

CallUpdate(id, data, create) ==
    /\ pc = "memory"
    /\ Len(calls) < MaxCalls
    /\ memory' = MemUpdate(memory, id, data, create)
    /\ calls' = Append(calls, MemoryCall("update", id, data, create, memory'))
    /\ UNCHANGED <<cfgvars, objvars, seqvars, parameter_instruction, parsed, pc, err,
                   netvars, completed, jobs, init, operators, processors,
                   operator_map, spawned>>

MemoryNext ==
    \/ \E id \in MemoryIds : \E data \in MemoryData : CallAdd(id, data)
    \/ \E id \in MemoryIds : \E data \in MemoryData :
          \E create \in BOOLEAN : CallUpdate(id, data, create)

MemorySpec == InitMemory /\ [][MemoryNext]_vars

(***************************************************************************)
(* Calls of _compile_operator_input_params and of _operator_settings on a  *)
(* controller                                                              *)
(***************************************************************************)
CompileConfig ==
    \E input_ \in InputChoices : \E dedicated \in DedicatedChoices :
    \E init_only \in BOOLEAN :
        /\ input_.kind # "dict" => ~init_only
        /\ config = InputConfiguration(1, input_, dedicated, init_only)
        /\ shared_data \in SharedDataChoices

\* a call, the memory before and after it, and what it raises or returns
Call(fn, id, r) ==
    [fn |-> fn, id_ |-> id, before |-> memory, after |-> r.memory,
     err |-> r.err, input_params |-> r.input_params]

CallCompileOperatorInputParams(id) ==
    /\ pc = "created"
    /\ Len(calls) < MaxCalls
    /\ LET r == CompileOperatorInputParams(OperatorCfg(config, id), memory)
       IN  /\ memory' = r.memory
           /\ calls' = Append(calls, Call("_compile_operator_input_params",
                                          id, r))
    /\ UNCHANGED <<cfgvars, objvars, seqvars, parameter_instruction, parsed, pc, err, netvars,
                   completed, jobs, init, operators, processors,
                   operator_map, spawned>>

CallOperatorSettings(id) ==
    /\ pc = "created"
    /\ Len(calls) < MaxCalls
    /\ LET r == OperatorSettings(OperatorCfg(config, id), memory)
       IN  /\ memory' = r.memory
           /\ calls' = Append(calls, Call("_operator_settings", id, r))
    /\ UNCHANGED <<cfgvars, objvars, seqvars, parameter_instruction, parsed, pc, err, netvars,
                   completed, jobs, init, operators, processors,
                   operator_map, spawned>>

CompileNext ==
    \/ ApplyRunAfter
    \/ CreateTree
    \/ ProcessHeader
    \/ \E i \in 1..Len(config) : CallCompileOperatorInputParams(config[i].id_)
    \/ \E i \in 1..Len(config) : CallOperatorSettings(config[i].id_)

InitCompile == CompileConfig /\ parallelize = TRUE /\ InitVars

CompileSpec == InitCompile /\ [][CompileNext]_vars

(***************************************************************************)
(* Notions the properties are stated in                                    *)
(***************************************************************************)
Ids(ops) == {ops[i].id_ : i \in 1..Len(ops)}

\* the run_after of the operator v of the configuration
RunAfterOf(v) == OperatorCfg(config, v).run_after

\* the operator declared immediately before v; the null operator for the first
DeclaredBefore(v) ==
    LET i == CHOOSE k \in 1..Len(config) : config[k].id_ = v
    IN  IF i = 1 THEN NULL ELSE config[i - 1].id_

\* the positions of the edges into v
Incoming(e, v) == {i \in 1..Len(e) : e[i].target = v}

\* the operators other than the null operator an edge into v comes from
GraphPredecessors(e, v) ==
    UNION {Range(e[i].source.ids) : i \in Incoming(e, v)} \ {NULL}

\* the operators a relation reaches from those of S
RECURSIVE Closure(_, _)
Closure(R, S) ==
    LET T == S \cup {p[2] : p \in {q \in R : q[1] \in S}}
    IN  IF T = S THEN S ELSE Closure(R, T)

HasCycle(R) == \E p \in R : p[1] \in Closure(R, {p[2]})

\* u before v for every u the run_after of v names
RunAfterRelation(ops) ==
    UNION {{<<u, ops[i].id_>> : u \in Range(ops[i].run_after.ids)} :
             i \in 1..Len(ops)}

\* u before v for every edge of the network from u to v
EdgeRelation(e) ==
    UNION {{<<u, e[i].target>> : u \in Range(e[i].source.ids)} :
             i \in 1..Len(e)}

\* Network._build has returned
Built == n_iter = Len(config)

\* Controller.__init__ has returned without an exception
Constructed == pc \notin {"build", "header", "raised"}

(***************************************************************************)
(* Properties of the network                                               *)
(***************************************************************************)
\* C7: a configuration whose run_after references form a cycle, a reference
\* of an operator to itself included, never gets through the construction,
\* and the network of a constructed controller has no cycle.
C7_CyclesRejected ==
    Constructed =>
        /\ ~HasCycle(RunAfterRelation(config))
        /\ ~HasCycle(EdgeRelation(edges))

\* C8: once the network is built, an operator v whose run_after is the id
\* u # v of an operator of the configuration has the edge from u to v and
\* no other edge into v.
C8_SingleRunAfterEdge ==
    Built =>
        \A v \in Ids(config) :
            LET run_after == RunAfterOf(v)
            IN  (/\ run_after.kind = "str"
                 /\ run_after.ids[1] # v
                 /\ run_after.ids[1] \in Ids(config))
                => /\ Incoming(edges, v) # {}
                   /\ \A i \in Incoming(edges, v) : edges[i].source = run_after

\* C9: once the network is built, an operator v whose run_after is a list R
\* has exactly the operators of R as predecessors, by one edge from each
\* whose source is that single id, and operator_tree maps the network.
C9_ListRunAfterEdges ==
    Built =>
        /\ \A v \in Ids(config) :
              RunAfterOf(v).kind = "list" =>
                 /\ {edges[i].source : i \in Incoming(edges, v)} =
                        {StrRA(u) : u \in Range(RunAfterOf(v).ids)}
                 /\ Cardinality(Incoming(edges, v)) =
                        Cardinality(Range(RunAfterOf(v).ids))
        /\ ~TreeFails(edges)

\* C10 as stated: once the network is built, an operator without run_after
\* has exactly one edge into it, and that edge comes from the operator
\* declared immediately before it (the null operator for the first).
C10_DeclaredPredecessorEdge ==
    Built =>
        \A v \in Ids(config) :
            RunAfterOf(v).kind = "none" =>
                /\ Cardinality(Incoming(edges, v)) = 1
                /\ \A i \in Incoming(edges, v) :
                      edges[i].source = StrRA(DeclaredBefore(v))

\* the operator declared immediately before v is not moved by a run_after
\* of its own
PredecessorStays(v) ==
    DeclaredBefore(v) = NULL \/ RunAfterOf(DeclaredBefore(v)).kind = "none"

\* C10 amended: once the network is built, an operator without run_after
\* has exactly one edge into it; that edge comes from the operator declared
\* immediately before it (the null operator for the first) whenever that
\* operator carries no run_after itself.
C10_UnmovedPredecessorEdge ==
    Built =>
        \A v \in Ids(config) :
            RunAfterOf(v).kind = "none" =>
                /\ Cardinality(Incoming(edges, v)) = 1
                /\ PredecessorStays(v) =>
                      \A i \in Incoming(edges, v) :
                          edges[i].source = StrRA(DeclaredBefore(v))

\* a built network that a run_after has rewritten, with an operator without
\* run_after right after an operator without run_after
C10_Witness ==
    /\ Built
    /\ edges # InitialEdges(config)
    /\ \E v \in Ids(config) :
          /\ RunAfterOf(v).kind = "none"
          /\ DeclaredBefore(v) # NULL
          /\ PredecessorStays(v)
          /\ \E i \in Incoming(edges, v) :
                edges[i].source = StrRA(DeclaredBefore(v))

\* the run_after of v is a single identifier and the edge into v no longer
\* comes from the operator declared immediately before v
MovedAway(v) ==
    /\ RunAfterOf(v).kind = "str"
    /\ \A i \in Incoming(edges, v) :
          edges[i].source # StrRA(DeclaredBefore(v))

\* C30: once the network is built, when a single run_after has moved the
\* operator v away from the operator declared before it, the edge into the
\* operator without run_after that is declared right after v comes from
\* the operator declared immediately before v (the null operator when v is
\* the first).
C30_FollowerTakesPredecessor ==
    Built =>
        \A v \in Ids(config) : \A w \in Ids(config) :
            (MovedAway(v) /\ v # w /\ DeclaredBefore(w) = v
                /\ RunAfterOf(w).kind = "none")
                => \A i \in Incoming(edges, w) :
                      edges[i].source = StrRA(DeclaredBefore(v))

(***************************************************************************)
(* Properties of the parallel run                                          *)
(***************************************************************************)
\* the operators the claim C1 calls the predecessors of v: those its
\* run_after names, or the operator declared before it without a run_after
NamedPredecessors(v) ==
    IF RunAfterOf(v).kind # "none" THEN Range(RunAfterOf(v).ids)
    ELSE {DeclaredBefore(v)} \ {NULL}

SomeOperatorRaised ==
    \E p \in DOMAIN processors : \E id \in DOMAIN processors[p].processes :
        processors[p].processes[id].outcome = "raised"

\* C2: when the run of an operator raises, the scheduler comes to observe
\* the error, terminates and deregisters every processor and run() raises;
\* it does not wait forever.
C2_ErrorObserved ==
    SomeOperatorRaised ~>
        (pc = "raised" /\ processors = NoProcessors /\ operator_map = <<>>)

\* C3: when the run returns, completed holds exactly the operators of the
\* configuration, each once; when the run raises, completed holds a strict
\* subset of them, each at most once.
C3_CompletedAll ==
    LET once == \A i, j \in 1..Len(completed) :
                    completed[i] = completed[j] => i = j
    IN  /\ pc = "done" => once /\ Range(completed) = Ids(config)
        /\ (pc = "raised" /\ Built) =>
              /\ once
              /\ Range(completed) \subseteq Ids(config)
              /\ Range(completed) # Ids(config)

\* C4: a job of an operator s that names an operator v with save_output in
\* its run_after and reads the key v is saved under has the value of the
\* last of the configured runs of v as the value of that key.
C4_ReadsFinalValue ==
    \A i \in 1..Len(jobs) : \A v \in Ids(config) :
        LET s == OperatorCfg(config, jobs[i].id_)
            saver == OperatorCfg(config, v)
            k == StorageName(saver)
        IN  (/\ v # s.id_
             /\ v \in Range(s.run_after.ids)
             /\ saver.save_output
             /\ s.shared_input_params = StrIn(k))
            => jobs[i].input_params[k] = ReturnValue(v, saver.repeat)

\* C5: an operator is in completed, and its successors have jobs, only
\* after it has been run as many times as its configured repeat.
C5_CompletedAfterRepeat ==
    \A v \in Ids(config) :
        (\/ v \in Range(completed)
         \/ v \in DOMAIN tree /\ \E w \in Range(tree[v]) :
               w # v /\ w \in JobIds(jobs))
        => spawned[v] >= OperatorCfg(config, v).repeat

\* C6: when the run returns, every operator has been started in as many
\* processes as its configured repeat, and the counter of a new job is the
\* configured repeat.
C6_SpawnsEqualRepeat ==
    /\ pc = "done" =>
          \A v \in Ids(config) : spawned[v] = OperatorCfg(config, v).repeat
    /\ \A i \in 1..Len(jobs) :
          spawned[jobs[i].id_] = 0 =>
              jobs[i].repeat = OperatorCfg(config, jobs[i].id_).repeat

\* the operators whose run_after is a list of operators of the configuration
\* other than themselves
JoinOperators ==
    {v \in Ids(config) :
        /\ RunAfterOf(v).kind = "list"
        /\ Range(RunAfterOf(v).ids) \subseteq Ids(config) \ {v}}

\* C11: with an operator whose run_after lists several operators, the
\* construction and the parallel run raise nothing, and the operator is
\* dispatched at most once and only with all the listed operators in
\* completed.
C11_JoinDispatchedAfterAll ==
    JoinOperators # {} =>
        /\ pc # "raised"
        /\ \A v \in JoinOperators :
              /\ spawned[v] <= 1
              /\ v \in Range(operators) =>
                    Range(RunAfterOf(v).ids) \subseteq Range(completed)

\* every id the run_after of the job names is in completed
RunAfterCompleted(job) ==
    Range(RunAfterOf(job.id_).ids) \subseteq Range(completed)

\* C12: a scheduling cycle puts every job that is offline and whose
\* run_after is completed online, and starts all of them in the processes of
\* the one processor it creates.
C12_ReadyJobsDispatched ==
    [][Dispatch =>
         \A i \in 1..Len(jobs) :
             (~jobs[i].online /\ RunAfterCompleted(jobs[i])) =>
                 /\ jobs'[i].online
                 /\ NewProcessorId(processors) \in DOMAIN processors'
                 /\ jobs[i].id_ \in
                       Range(processors'[NewProcessorId(processors)]
                                 .operator_ids)]_vars

\* two operators with the same completed run_after are in the processes of
\* one processor, one still running while the other is done
C12_Witness ==
    \E p \in DOMAIN processors :
        \E v, w \in Range(processors[p].operator_ids) :
            /\ v # w
            /\ RunAfterOf(v).kind = "str"
            /\ RunAfterOf(v) = RunAfterOf(w)
            /\ RunAfterOf(v).ids[1] \in Range(completed)
            /\ processors[p].processes[v].done
            /\ processors[p].processes[w].state = "started"

\* some run_after of the configuration names an identifier no operator has
UnknownRunAfter ==
    \E i \in 1..Len(config) :
        ~(Range(config[i].run_after.ids) \subseteq Ids(config))

\* C13: a configuration in which a run_after names an identifier that no
\* operator has does not get through the construction: no controller is
\* constructed from it and no operator of it is ever started.
C13_UnknownRunAfterRejected ==
    UnknownRunAfter =>
        /\ ~Constructed
        /\ \A v \in Ids(config) : spawned[v] = 0

(***************************************************************************)
(* Properties of the AS instruction                                        *)
(***************************************************************************)
\* a non-empty string without whitespace
Token(s) == s # <<>> /\ ~Contains(s, <<Space>>)

\* the delimiter in every letter case
DelimiterCases == {d \in [1..4 -> {" ", "a", "A", "s", "S"}] : Lower(d) = Delimiter}

\* the ways to read s as two tokens joined by the delimiter in some case
AsInstructions(s) ==
    {Returned(SubSeq(s, 1, i), SubSeq(s, i + 5, Len(s))) :
        i \in {k \in 1..(Len(s) - 5) :
                 /\ Token(SubSeq(s, 1, k))
                 /\ SubSeq(s, k + 1, k + 4) \in DelimiterCases
                 /\ Token(SubSeq(s, k + 5, Len(s)))}}

\* C18: _get_shared_parameter_as returns (src, alias) for two tokens joined
\* by the delimiter in any letter case, and (s, s) for a single token s.
C18_ParsesAsInstruction ==
    pc # "parse" =>
        /\ \A r \in AsInstructions(parameter_instruction) : parsed = r
        /\ Token(parameter_instruction) =>
              parsed = Returned(parameter_instruction, parameter_instruction)

\* C19: _get_shared_parameter_as raises the error of an invalid format for
\* every string that is neither a single token nor two tokens joined by the
\* delimiter.
C19_RejectsOtherStrings ==
    (/\ pc # "parse"
     /\ ~Token(parameter_instruction)
     /\ AsInstructions(parameter_instruction) = {})
    => parsed.err = "ValueError"

(***************************************************************************)
(* Properties of the input parameters of an operator                       *)
(***************************************************************************)
\* the calls of fn on operators with one of the given forms of
\* shared_input_params
CallsOf(fn, kinds) ==
    {i \in 1..Len(calls) :
        /\ calls[i].fn = fn
        /\ OperatorCfg(config, calls[i].id_).shared_input_params.kind \in kinds}

\* how an instruction "src" or "src AS alias" is to be read
Reading(s) ==
    IF Token(s) THEN Returned(s, s) ELSE CHOOSE r \in AsInstructions(s) : TRUE

\* C15: for the string and the list form, the compiled input parameters are
\* the dedicated input parameters plus, for every instruction "src" or
\* "src AS alias", alias bound to the value the store holds for src; the
\* store is not modified.
C15_CompiledInputParams ==
    \A i \in CallsOf("_compile_operator_input_params", {"str", "list"}) :
        LET cfg == OperatorCfg(config, calls[i].id_)
            names == cfg.shared_input_params.names
            dedicated == cfg.dedicated_input_params
            aliases == {Reading(names[j]).as_ : j \in 1..Len(names)}
        IN  /\ calls[i].after = calls[i].before
            /\ (\A j \in 1..Len(names) :
                    Reading(names[j]).source \in DOMAIN calls[i].before)
               => /\ calls[i].err = ""
                  /\ DOMAIN calls[i].input_params = DOMAIN dedicated \cup aliases
                  /\ \A k \in DOMAIN dedicated \ aliases :
                        calls[i].input_params[k] = dedicated[k]
                  /\ \A j \in 1..Len(names) :
                        calls[i].input_params[Reading(names[j]).as_] \in
                            {calls[i].before[Reading(names[l]).source] :
                                l \in {m \in 1..Len(names) :
                                         Reading(names[m]).as_ =
                                             Reading(names[j]).as_}}

\* the store holds x, the operator has "x AS v" and the dedicated input
\* parameter y, and the compiled input parameters are v and y
C15_Witness ==
    \E i \in CallsOf("_compile_operator_input_params", {"str"}) :
        /\ OperatorCfg(config, calls[i].id_).shared_input_params.names[1] =
               <<"x", " ", "A", "S", " ", "v">>
        /\ calls[i].err = ""
        /\ calls[i].input_params =
               [k \in {Name("v"), Name("y")} |->
                   IF k = Name("v") THEN calls[i].before[Name("x")]
                   ELSE DedicatedValue]

\* the calls of fn on operators with the mapping form of which the memory
\* holds no name before the call
CallsOnAbsent(fn) ==
    {i \in CallsOf(fn, {"dict"}) :
        Range(OperatorCfg(config, calls[i].id_).shared_input_params.names)
            \cap DOMAIN calls[i].before = {}}

\* C16: _operator_settings of an operator with the mapping form, whose names
\* the store does not hold, succeeds, leaves each name in the store with its
\* initial value and binds the name to it, with and without
\* shared_input_init_only.
C16_InitialValueBound ==
    \A i \in CallsOnAbsent("_operator_settings") :
        LET input_ == OperatorCfg(config, calls[i].id_).shared_input_params
        IN  /\ calls[i].err = ""
            /\ \A j \in 1..Len(input_.names) :
                  /\ input_.names[j] \in DOMAIN calls[i].after
                  /\ calls[i].after[input_.names[j]] = input_.values[j]
                  /\ input_.names[j] \in DOMAIN calls[i].input_params
                  /\ calls[i].input_params[input_.names[j]] = input_.values[j]

\* the calls on operators with the mapping form and shared_input_init_only
InitOnlyCalls ==
    {i \in 1..Len(calls) :
        /\ OperatorCfg(config, calls[i].id_).shared_input_params.kind = "dict"
        /\ OperatorCfg(config, calls[i].id_).shared_input_init_only}

\* the declared names the memory holds before the call, in declared order
ExistingNames(i) ==
    SelectSeq(OperatorCfg(config, calls[i].id_).shared_input_params.names,
              LAMBDA name_ : name_ \in DOMAIN calls[i].before)

\* the initial value the operator of the call declares for the name
InitialOf(i, name_) ==
    LET input_ == OperatorCfg(config, calls[i].id_).shared_input_params
    IN  input_.values[CHOOSE j \in 1..Len(input_.names) :
                          input_.names[j] = name_]

\* for every name, at most one call that declares it with
\* shared_input_init_only succeeds
OneSuccessPerName ==
    \A name_ \in UNION {DOMAIN calls[i].after : i \in 1..Len(calls)} :
        Cardinality({i \in InitOnlyCalls :
            /\ calls[i].err = ""
            /\ name_ \in Range(OperatorCfg(config, calls[i].id_)
                                   .shared_input_params.names)}) <= 1

\* C17 as stated: with shared_input_init_only and the mapping form, the
\* compilation fails with the error of a name that already exists whenever
\* the store holds a declared name, so that at most one succeeds per name.
C17_AlreadyExistsError ==
    /\ \A i \in InitOnlyCalls :
          ExistingNames(i) # <<>> => calls[i].err = "MemoryError"
    /\ OneSuccessPerName

\* C17: with shared_input_init_only and the mapping form, the compilation
\* fails whenever the store holds a declared name: with the error of a name
\* that already exists when the first such name holds a value of the type
\* of its initial value, with the error of unequal types otherwise; at most
\* one compilation succeeds per name.
C17_FailsOnExistingName ==
    /\ \A i \in InitOnlyCalls :
          ExistingNames(i) # <<>> =>
              calls[i].err =
                  IF IsInstance(calls[i].before[Head(ExistingNames(i))],
                                InitialOf(i, Head(ExistingNames(i))))
                  THEN "MemoryError" ELSE "ValueError"
    /\ OneSuccessPerName

\* a compilation adds the name, the next one finds it in the store and fails
C17_Witness ==
    /\ Len(calls) >= 2
    /\ {1, 2} \subseteq InitOnlyCalls
    /\ calls[1].fn = "_compile_operator_input_params"
    /\ calls[1].err = ""
    /\ calls[2].fn = "_compile_operator_input_params"
    /\ ExistingNames(2) # <<>>
    /\ calls[2].err = "MemoryError"

\* the processes that are running
RunningWorkers ==
    {<<p, id>> \in (DOMAIN processors) \X Range(AllIds) :
        /\ id \in DOMAIN processors[p].processes
        /\ processors[p].processes[id].state \in {"spawned", "started"}}

\* an operator reads, in the string or the list form, a name that the store
\* does not hold, and run() has raised the error of the missing name
MissingSharedInputRaised ==
    /\ pc = "raised"
    /\ err = "MemoryError"
    /\ \E i \in 1..Len(config) :
          /\ config[i].shared_input_params.kind \in {"str", "list"}
          /\ ~(Range(config[i].shared_input_params.names) \subseteq DOMAIN memory)

\* C14: when run() raises the error of a shared input missing in the store,
\* the store is as the header left it and no worker is left running.
C14_MissingInputTerminatesWorkers ==
    MissingSharedInputRaised =>
        /\ memory = AddAll(EmptyMemory, shared_data)
        /\ RunningWorkers = {}

(***************************************************************************)
(* Properties of repeated operators                                        *)
(***************************************************************************)
\* the run of some operator has raised, in a process or in the controller
OperatorRaised ==
    SomeOperatorRaised \/ (pc = "raised" /\ err = "RuntimeError")

\* run() has returned, the operator was created once for every repeat when
\* it is reinitialized in its repeats and once otherwise, and the store
\* holds what its last run returned
RepeatedAndSaved(cfg) ==
    /\ pc = "done"
    /\ instantiated[cfg.id_] =
           IF cfg.reinitialize_in_repeats THEN cfg.repeat ELSE 1
    /\ StorageName(cfg) \in DOMAIN memory
    /\ memory[StorageName(cfg)] = ReturnValue(cfg.id_, cfg.repeat)

\* C20: unless the run of an operator raises, run() returns, in the parallel
\* and in the sequential mode, with every operator that has a repeat n and
\* save_output created n times when reinitialize_in_repeats is set and once
\* otherwise, and with the return of its n-th run in the store.
C20_RepeatedAndSaved ==
    \A i \in 1..MaxLiveOps :
        (pc = "created" /\ i <= Len(config) /\ config[i].save_output)
            ~> (OperatorRaised
                    \/ (i <= Len(config) /\ RepeatedAndSaved(config[i])))

(***************************************************************************)
(* Properties of the shared memory                                         *)
(***************************************************************************)
\* the calls of the method fn
MemoryCalls(fn) == {i \in 1..Len(calls) : calls[i].fn = fn}

\* the two memories hold the same data for every identifier but id
SameButFor(before, after, id) ==
    /\ DOMAIN after \ {id} = DOMAIN before \ {id}
    /\ \A k \in DOMAIN before \ {id} : after[k] = before[k]

\* C25: add(k, v) leaves a store that holds k unchanged and inserts k with
\* v, changing no other key, into a store without k; add(k, v) twice gives
\* the store of add(k, v) once, and after add(k, v1) and add(k, v2) the
\* store holds v1 for k.
C25_AddKeepsExisting ==
    /\ \A i \in MemoryCalls("add") :
          /\ calls[i].id_ \in DOMAIN calls[i].before
                => calls[i].after = calls[i].before
          /\ calls[i].id_ \notin DOMAIN calls[i].before
                => /\ Get(calls[i].after, calls[i].id_) = <<calls[i].data>>
                   /\ SameButFor(calls[i].before, calls[i].after, calls[i].id_)
    /\ \A i \in MemoryCalls("add") : \A j \in MemoryCalls("add") :
          (j = i + 1 /\ calls[j].id_ = calls[i].id_)
              => /\ calls[j].after = calls[i].after
                 /\ Get(calls[j].after, calls[i].id_) =
                        Get(calls[i].after, calls[i].id_)

\* add(k, v1) on a store without k, then add(k, v2) with another v2
C25_Witness ==
    /\ {1, 2} \subseteq MemoryCalls("add")
    /\ calls[1].id_ \notin DOMAIN calls[1].before
    /\ calls[2].id_ = calls[1].id_
    /\ calls[2].data # calls[1].data
    /\ Get(memory, calls[1].id_) = <<calls[1].data>>

\* C26: after update(k, v, create) a store that held k holds v for k, a
\* store without k holds k with v when create is true and is unchanged when
\* it is false; no other key changes, and k exists afterwards iff it was
\* present or create was true.
C26_UpdateOverwritesOrCreates ==
    \A i \in MemoryCalls("update") :
        /\ calls[i].id_ \in DOMAIN calls[i].before
              => Get(calls[i].after, calls[i].id_) = <<calls[i].data>>
        /\ (calls[i].id_ \notin DOMAIN calls[i].before /\ calls[i].create)
              => Get(calls[i].after, calls[i].id_) = <<calls[i].data>>
        /\ (calls[i].id_ \notin DOMAIN calls[i].before /\ ~calls[i].create)
              => calls[i].after = calls[i].before
        /\ SameButFor(calls[i].before, calls[i].after, calls[i].id_)
        /\ Exists(calls[i].after, calls[i].id_)
              <=> (calls[i].id_ \in DOMAIN calls[i].before \/ calls[i].create)

\* update without create on a store without k, then update with create, then
\* the store holds k
C26_Witness ==
    /\ {1, 2} \subseteq MemoryCalls("update")
    /\ calls[1].id_ \notin DOMAIN calls[1].before
    /\ ~calls[1].create
    /\ calls[2].id_ = calls[1].id_
    /\ calls[2].create
    /\ Get(memory, calls[2].id_) = <<calls[2].data>>

(***************************************************************************)
(* Properties of the operator processes                                    *)
(***************************************************************************)
\* the step is one of the process of the operator id in the processor p
ProcessStep(p, id) ==
    /\ p \in DOMAIN processors /\ p \in DOMAIN processors'
    /\ id \in DOMAIN processors[p].processes
    /\ id \in DOMAIN processors'[p].processes
    /\ processors'[p].processes[id].state # processors[p].processes[id].state

\* the started processes
ProcessIds ==
    {pid \in (DOMAIN processors) \X Range(AllIds) :
        pid[2] \in DOMAIN processors[pid[1]].processes}

\* C21: a step of an operator process leaves the shared memory, and all
\* else but its own events and its own return queue, unchanged, and its
\* queue holds at most one item; the shared memory changes only in steps of
\* the controller: the header, the jobs that are added, and the processing
\* of a done operator.
C21_ProcessesLeaveMemory ==
    [][/\ \A pid \in ProcessIds :
             ProcessStep(pid[1], pid[2])
                => /\ memory' = memory
                   /\ UNCHANGED <<pc, err, completed, jobs, init, operators,
                                  operator_map, netvars>>
                   /\ processors' =
                         [processors EXCEPT ![pid[1]].processes[pid[2]] =
                             processors'[pid[1]].processes[pid[2]]]
                   /\ Len(processors'[pid[1]].processes[pid[2]].queue) <= 1
       /\ memory' # memory => /\ pc \in {"header", "created", "poll"}
                              /\ \A pid \in ProcessIds :
                                    ~ProcessStep(pid[1], pid[2])]_vars

\* a process has set its done event while the shared memory holds data
C21_Witness ==
    /\ memory # EmptyMemory
    /\ \E pid \in ProcessIds :
          /\ processors[pid[1]].processes[pid[2]].state = "exited"
          /\ processors[pid[1]].processes[pid[2]].done

DuplicateUserIds ==
    \E i \in 1..Len(config) : \E j \in 1..Len(config) :
        i # j /\ config[i].id_ # NoId /\ config[i].id_ = config[j].id_

\* C23: the identifiers of the network are pairwise distinct: a
\* configuration in which two operators have the same user-defined id_ is
\* rejected by the validation, no identifier is added to the network twice,
\* and an identifier that is created for an operator without id_ is none of
\* the identifiers of the network.
C23_DistinctIds ==
    /\ DuplicateUserIds => pc \in {"validate", "raised"}
    /\ pc \in {"ids", "ids_done"}
          => \A i \in 1..Len(ids_) : \A j \in 1..Len(ids_) :
                i # j => ids_[i] # ids_[j]

(***************************************************************************)
(* Properties of the operators                                             *)
(***************************************************************************)
\* the changes of state of one run of an operator that is OFFLINE
RunChanges ==
    {<<"OFFLINE", "ONLINE">>, <<"ONLINE", "COMPLETED">>, <<"ONLINE", "ERROR">>}

\* the changes of state the operator has made
Changes(operator) ==
    {<<operator.states[k], operator.states[k + 1]>> :
        k \in 1..(Len(operator.states) - 1)}

\* the state of the operator
State(operator) == operator.states[Len(operator.states)]

HasRun(id) ==
    \E p \in DOMAIN processors :
        /\ id \in DOMAIN processors[p].processes
        /\ processors[p].processes[id].outcome # "none"

\* a process of the operator id has set its done event
DoneSet(id) ==
    \E p \in DOMAIN processors :
        /\ id \in DOMAIN processors[p].processes
        /\ processors[p].processes[id].done

\* C27: a process has set its start event when its operator runs; once its
\* operator has returned or raised, with or without a return queue, its done
\* event gets set; and its error event is set iff its operator has raised.
C27_ProcessEvents ==
    /\ [](\A pid \in ProcessIds :
             processors[pid[1]].processes[pid[2]].outcome # "none"
                => processors[pid[1]].processes[pid[2]].start)
    /\ [](\A pid \in ProcessIds :
             processors[pid[1]].processes[pid[2]].error
                <=> processors[pid[1]].processes[pid[2]].outcome = "raised")
    /\ \A id \in Range(AllIds) : HasRun(id) ~> DoneSet(id)

\* a process with a return queue of the operator id whose operator returned
ReturnedWithQueue(id) ==
    \E p \in DOMAIN processors :
        /\ id \in DOMAIN processors[p].processes
        /\ processors[p].processes[id].has_queue
        /\ processors[p].processes[id].outcome = "returned"

\* the memory holds data under the storage name of the operator id
Saved(id) ==
    \E i \in 1..Len(config) :
        config[i].id_ = id /\ Exists(memory, StorageName(config[i]))

AcyclicAndKnown ==
    /\ ~HasCycle(RunAfterRelation(config))
    /\ \A i \in 1..Len(config) :
          Range(config[i].run_after.ids) \subseteq Ids(config)

\* the run has raised for a shared input that the memory does not hold
MissingInput == pc = "raised" /\ err = "MemoryError"

\* C29: for a configuration without a cycle whose run_after name operators
\* of the configuration only, the parallel run returns, unless an operator
\* raises or reads a shared input that is missing; it does not go on
\* forever and does not end in another error.
C29_RunReturns ==
    (pc = "build" /\ parallelize /\ AcyclicAndKnown)
        ~> (pc = "done" \/ SomeOperatorRaised \/ MissingInput)

(***************************************************************************)
(* Properties of the edges during the run_after loop                       *)
(***************************************************************************)
\* every run_after of the configuration is absent or a single identifier
SingleRunAfter ==
    \A i \in 1..Len(config) : config[i].run_after.kind \in {"none", "str"}

\* C39: when every run_after is absent or a single identifier, after every
\* iteration of the run_after loop the network has as many edges as the
\* configuration has operators, and every operator is the target of exactly
\* one edge.
C39_OneEdgePerOperator ==
    SingleRunAfter =>
        /\ Len(edges) = Len(config)
        /\ \A v \in Ids(config) : Cardinality(Incoming(edges, v)) = 1

\* the run_after loop has changed the edges of a configuration of four
\* operators
C39_Witness ==
    /\ SingleRunAfter
    /\ Len(config) = 4
    /\ n_iter > 0
    /\ edges # InitialEdges(config)
    /\ {edges[i].target : i \in 1..Len(edges)} = Ids(config)

\* C31: once the network of a configuration without a cycle, whose
\* run_after name operators of the configuration only, is built and its tree
\* is created, the tree has the null operator as a key with at least one
\* operator after it, no edge has the null operator as its target, and
\* every operator is reached from the null operator along the edges.
C31_RootedTree ==
    (AcyclicAndKnown /\ Built /\ pc # "build")
        => /\ NULL \in DOMAIN tree
           /\ tree[NULL] # <<>>
           /\ \A i \in 1..Len(edges) : edges[i].target # NULL
           /\ Ids(config) \subseteq Closure(EdgeRelation(edges), {NULL})

(***************************************************************************)
(* Properties of the sequential run                                        *)
(***************************************************************************)
\* the positions of the operator id in a sequence of operators
PositionsOf(sequence_, id) ==
    {k \in 1..Len(sequence_) : sequence_[k] = StrRA(id)}

\* the runs of the operator id that are logged
Executions(id) == {k \in 1..Len(executed) : executed[k] = id}

\* C33: the operator sequence of a sequential run of a configuration
\* without a cycle, whose run_after name operators of the configuration
\* only, starts with the null operator and lists every operator exactly once, the source of every edge
\* before its target; and when the run has returned, every operator has
\* been run as many times as its repeat says.
C33_SequenceRunsEachOnce ==
    /\ (/\ pc = "sequence"
        /\ AcyclicAndKnown
        /\ Len(sequence) = Len(OperatorSequence(config, edges)))
          => /\ sequence[1] = StrRA(NULL)
             /\ \A id \in Ids(config) :
                   Cardinality(PositionsOf(sequence, id)) = 1
             /\ \A i \in 1..Len(edges) :
                   \A k \in PositionsOf(sequence, edges[i].target) :
                      \E j \in 1..(k - 1) : sequence[j] = edges[i].source
    /\ (pc = "done" /\ ~parallelize)
          => \A i \in 1..Len(config) :
                Cardinality(Executions(config[i].id_)) = config[i].repeat

(***************************************************************************)
(* Properties of the jobs                                                  *)
(***************************************************************************)
\* C36: the repetitions left of every job are at least 0 and at most the
\* repeat of its operator, and an operator whose job is online is not in
\* completed.
C36_JobBounds ==
    \A k \in 1..Len(jobs) :
        /\ jobs[k].repeat >= 0
        /\ jobs[k].repeat <= OperatorCfg(config, jobs[k].id_).repeat
        /\ jobs[k].online => jobs[k].id_ \notin Range(completed)

\* a job is online, with a repetition left, while another operator is
\* completed
C36_Witness ==
    /\ completed # <<>>
    /\ \E k \in 1..Len(jobs) :
          /\ jobs[k].online
          /\ jobs[k].repeat = 1
          /\ OperatorCfg(config, jobs[k].id_).repeat = MaxRepeat

(***************************************************************************)
(* Calls on a Processors object (multiprocessing.py, lines 439-673)        *)
(***************************************************************************)
\* A processor is [operator_ids, processes, aliased]: Processor._operators
\* is the dictionary Processors._operators it was created with, until reset
\* gives the Processors object a new one (aliased); the events and the
\* processes of the processor are those of DOMAIN processes.
InitProcessors ==
    /\ pc = "processors"
    /\ err = ""
    /\ config = <<>>
    /\ shared_data = NoSharedData
    /\ parallelize = TRUE
    /\ parameter_instruction = <<>>
    /\ parsed = NotParsed
    /\ calls = <<>>
    /\ sequence = <<>>
    /\ seq_runs = 0
    /\ executed = <<>>
    /\ instantiated = [id \in Range(AllIds) |-> 0]
    /\ ids_ = <<>>
    /\ handle = NoOperator
    /\ dedicated_ = EmptyMemory
    /\ edges = <<>>
    /\ n_iter = 0
    /\ tree = EmptyTree
    /\ memory = EmptyMemory
    /\ completed = <<>>
    /\ jobs = <<>>
    /\ init = TRUE
    /\ operators = <<>>
    /\ processors = NoProcessors
    /\ operator_map = <<>>
    /\ spawned = [id \in Range(AllIds) |-> 0]

\* Processor._operators of the processor p
OperatorsOf(procs, ops, p) ==
    IF procs[p].aliased THEN ops ELSE procs[p].operator_ids

\* Processor.__init__, lines 188-191: events for the operators, no process
NoProcess == [NewProcess(FALSE, 0) EXCEPT !.state = "none"]

\* Processor.all_done raises ValueError for an operator without done event
AllDoneRaises(procs, ops, p) ==
    ~(Range(OperatorsOf(procs, ops, p)) \subseteq DOMAIN procs[p].processes)

\* Processor.terminate_process, lines 395-423: the done event is set and
\* the process terminated; what it raises is caught
TerminateProcess(processor, id) ==
    IF id \notin DOMAIN processor.processes THEN processor
    ELSE [processor EXCEPT !.processes[id] =
            [@ EXCEPT !.done = TRUE,
                      !.state = IF @ \in {"spawned", "started"}
                                THEN "terminated" ELSE @]]

\* what the calls leave alone
ProcessorsFrame ==
    UNCHANGED <<cfgvars, objvars, callvars, seqvars, pc, netvars, memory,
                completed, jobs, init, spawned>>

\* Processors.reset, lines 452-456
CallProcessorsReset ==
    /\ pc = "processors"
    /\ operators' = <<>>
    /\ processors' = [p \in DOMAIN processors |->
                        [processors[p] EXCEPT
                            !.operator_ids = OperatorsOf(processors, operators, p),
                            !.aliased = FALSE]]
    /\ UNCHANGED <<operator_map, err>>
    /\ ProcessorsFrame

\* Processors.add_config(id_, operator), lines 459-496
CallAddConfig(id) ==
    /\ pc = "processors"
    /\ operators' = IF id \in Range(operators) THEN operators
                    ELSE Append(operators, id)
    /\ UNCHANGED <<processors, operator_map, err>>
    /\ ProcessorsFrame

\* Processors.create, lines 498-530
CallCreate ==
    /\ pc = "processors"
    /\ operators # <<>>
    /\ NewProcessorId(processors) <= MaxProcessors
    /\ processors' = processors @@
          (NewProcessorId(processors) :>
              [operator_ids |-> operators,
               processes |-> [id \in Range(operators) |-> NoProcess],
               aliased |-> TRUE])
    /\ operator_map' = MapSetAll(operator_map, operators,
                                 NewProcessorId(processors))
    /\ UNCHANGED <<operators, err>>
    /\ ProcessorsFrame

\* Processor.create_processes and start_processes, lines 356-378, called on
\* Processors.get(p); start_event raises ValueError for an operator without
\* events
CallStartProcesses(p) ==
    /\ pc = "processors"
    /\ p \in DOMAIN processors
    /\ \A id \in DOMAIN processors[p].processes :
          processors[p].processes[id].state = "none"
    /\ IF AllDoneRaises(processors, operators, p)
       THEN err' = "ValueError" /\ UNCHANGED processors
       ELSE /\ processors' = [processors EXCEPT ![p].processes =
                  [id \in DOMAIN @ |-> [@[id] EXCEPT !.state = "spawned"]]]
            /\ UNCHANGED err
    /\ UNCHANGED <<operators, operator_map>>
    /\ ProcessorsFrame

\* Processors.terminate(), lines 588-593
CallTerminate ==
    /\ pc = "processors"
    /\ processors' = NoProcessors
    /\ operator_map' = <<>>
    /\ operators' = <<>>
    /\ UNCHANGED err
    /\ ProcessorsFrame

\* Processors.terminate(p) of a processor of the registry, lines 594-606
CallTerminateProcessor(p) ==
    /\ pc = "processors"
    /\ p \in DOMAIN processors
    /\ processors' = [q \in DOMAIN processors \ {p} |-> processors[q]]
    /\ operator_map' = SelectSeq(operator_map, LAMBDA e : e.proc # p)
    /\ UNCHANGED <<operators, err>>
    /\ ProcessorsFrame

\* Processors.terminate(id, by_operator=True) of an operator of the map,
\* lines 594-602; get raises KeyError when the processor is missing
CallTerminateOperator(id) ==
    /\ pc = "processors"
    /\ \E i \in 1..Len(operator_map) : operator_map[i].op = id
    /\ LET p == operator_map[CHOOSE i \in 1..Len(operator_map) :
                                operator_map[i].op = id].proc
       IN  IF p \notin DOMAIN processors
           THEN /\ err' = "KeyError"
                /\ UNCHANGED <<processors, operator_map>>
           ELSE IF AllDoneRaises(processors, operators, p)
           THEN /\ err' = "ValueError"
                /\ processors' = [processors EXCEPT
                                    ![p] = TerminateProcess(@, id)]
                /\ UNCHANGED operator_map
           ELSE /\ processors' =
                      IF \A o \in Range(OperatorsOf(processors, operators, p)) :
                            TerminateProcess(processors[p], id).processes[o].done
                      THEN [q \in DOMAIN processors \ {p} |-> processors[q]]
                      ELSE [processors EXCEPT ![p] = TerminateProcess(@, id)]
                /\ operator_map' = SelectSeq(operator_map,
                                             LAMBDA e : e.op # id)
                /\ UNCHANGED err
    /\ UNCHANGED operators
    /\ ProcessorsFrame

ProcessorsNext ==
    \/ CallProcessorsReset
    \/ \E id \in Range(IdsOf(MaxProcessorOps)) : CallAddConfig(id)
    \/ CallCreate
    \/ \E p \in DOMAIN processors : CallStartProcesses(p)
    \/ CallTerminate
    \/ \E p \in DOMAIN processors : CallTerminateProcessor(p)
    \/ \E id \in Range(IdsOf(MaxProcessorOps)) : CallTerminateOperator(id)
    \/ \E p \in DOMAIN processors : \E id \in DOMAIN processors[p].processes :
          ProcessStart(p, id)
    \/ \E p \in DOMAIN processors : \E id \in DOMAIN processors[p].processes :
          \E outcome \in {"returned", "raised"} : ProcessRun(p, id, outcome)

ProcessorsSpec == InitProcessors /\ [][ProcessorsNext]_vars

(***************************************************************************)
(* Memory.shared and Memory.dedicated (memory.py, lines 42-54 and 154-232) *)
(***************************************************************************)
\* the handlers of the two stores of a Memory
SharedHandler == "_shared"
DedicatedHandler == "_dedicated"

\* Memory.shared, lines 42-47, and Memory.dedicated, lines 49-54: the
\* handler the property returns
MemoryShared == SharedHandler
MemoryDedicated == SharedHandler

\* Memory._Shared.remove
MemRemove(mem, id) == [k \in DOMAIN mem \ {id} |-> mem[k]]

\* an identifier that is stored as data
IdAsData == [op |-> "id_", run |-> 0, type |-> "str"]

\* a call made with the arguments of Memory._Dedicated on what
\* Memory.dedicated returns: the exception, what it returned, the memory
\* before and after it
DedicatedCall(fn, owner, exception, returned, after) ==
    [fn |-> fn, id_ |-> owner, err |-> exception, returned |-> returned,
     before |-> memory, after |-> after]

DedicatedFrame ==
    UNCHANGED <<cfgvars, objvars, seqvars, parameter_instruction, parsed, pc,
                netvars, completed, jobs, init, operators, processors,
                operator_map, spawned>>

\* Memory.shared.remove(id_)
CallRemove(id) ==
    /\ pc = "memory"
    /\ Len(calls) < MaxCalls
    /\ memory' = MemRemove(memory, id)
    /\ calls' = Append(calls, MemoryCall("remove", id, IdAsData, FALSE, memory'))
    /\ UNCHANGED err
    /\ DedicatedFrame

\* Memory.dedicated.get(owner, id_): on the handler of the shared store the
\* owner is the identifier and id_ the deepcopy flag
CallDedicatedGet(owner) ==
    /\ pc = "memory"
    /\ Len(calls) < MaxCalls
    /\ calls' = Append(calls,
          IF MemoryDedicated = SharedHandler
          THEN DedicatedCall("dedicated.get", owner, "", Get(memory, owner),
                             memory)
          ELSE DedicatedCall("dedicated.get", owner, "", <<>>, memory))
    /\ UNCHANGED <<memory, err>>
    /\ DedicatedFrame

\* Memory.dedicated.update(owner, id_, data): on the handler of the shared
\* store the owner is the identifier, id_ the data and data the create flag
CallDedicatedUpdate(owner) ==
    /\ pc = "memory"
    /\ Len(calls) < MaxCalls
    /\ memory' = IF MemoryDedicated = SharedHandler
                 THEN MemUpdate(memory, owner, IdAsData, TRUE)
                 ELSE memory
    /\ calls' = Append(calls,
                       DedicatedCall("dedicated.update", owner, "", <<>>,
                                     memory'))
    /\ UNCHANGED err
    /\ DedicatedFrame

\* Memory.dedicated.add(owner, id_, data) and remove(owner, id_) have one
\* argument more than add and remove of the handler of the shared store
\* (TypeError); it has no remove_owner (AttributeError)
CallDedicatedRaising(fn, owner) ==
    /\ pc = "memory"
    /\ Len(calls) < MaxCalls
    /\ IF MemoryDedicated = SharedHandler
       THEN /\ err' = IF fn = "dedicated.remove_owner" THEN "AttributeError"
                      ELSE "TypeError"
            /\ calls' = Append(calls,
                               DedicatedCall(fn, owner, err', <<>>, memory))
       ELSE /\ err' = err
            /\ calls' = Append(calls,
                               DedicatedCall(fn, owner, "", <<>>, memory))
    /\ UNCHANGED memory
    /\ DedicatedFrame

DedicatedFns ==
    {"dedicated.get", "dedicated.update", "dedicated.add",
     "dedicated.remove", "dedicated.remove_owner"}

AccessNext ==
    \/ MemoryNext
    \/ \E id \in MemoryIds : CallRemove(id)
    \/ \E owner \in MemoryIds : CallDedicatedGet(owner)
    \/ \E owner \in MemoryIds : CallDedicatedUpdate(owner)
    \/ \E owner \in MemoryIds :
          \E fn \in DedicatedFns \ {"dedicated.get", "dedicated.update"} :
              CallDedicatedRaising(fn, owner)

AccessSpec == InitMemory /\ [][AccessNext]_vars

(***************************************************************************)
(* Properties of the processors                                            *)
(***************************************************************************)
\* C37: while the controller polls the events, after create_processes and
\* start_processes have returned, every process of a processor has set its
\* start event, or some process of it has set its error event.
C37_StartedBeforePolling ==
    pc = "poll" =>
        \A p \in DOMAIN processors :
            \/ \A id \in DOMAIN processors[p].processes :
                  processors[p].processes[id].start
            \/ \E id \in DOMAIN processors[p].processes :
                  processors[p].processes[id].error

\* the processors that hold a running process of the operator id
LiveProcessors(id) == {p \in DOMAIN processors : <<p, id>> \in RunningWorkers}

\* C34: no operator id has more than one running process, and a process is
\* created for an operator id only when its job is not online and every
\* earlier process of the id has set its done event.
C34_OneLiveWorker ==
    /\ [](\A id \in Range(AllIds) : Cardinality(LiveProcessors(id)) <= 1)
    /\ [][\A id \in DOMAIN spawned :
            spawned'[id] > spawned[id] =>
                /\ id \in JobIds(jobs)
                /\ ~jobs[JobIndex(jobs, id)].online
                /\ \A p \in DOMAIN processors :
                      id \in DOMAIN processors[p].processes =>
                          processors[p].processes[id].done]_vars

\* a processor is created while the process of an online job of an earlier
\* processor is running
C34_Witness ==
    /\ pc = "poll"
    /\ \E p, q \in DOMAIN processors : \E id \in Range(AllIds) :
          /\ p < q
          /\ LiveProcessors(id) = {p}
          /\ id \in JobIds(jobs)
          /\ jobs[JobIndex(jobs, id)].online
          /\ id \notin DOMAIN processors[q].processes
          /\ \E other \in DOMAIN processors[q].processes :
                <<q, other>> \in RunningWorkers

\* the process of the operator id has set its done event
Done(id) ==
    \E p \in DOMAIN processors :
        /\ id \in DOMAIN processors[p].processes
        /\ processors[p].processes[id].done

\* the operators that follow a done or completed operator in the tree and
\* have not been given a process
Delayed ==
    {next \in Range(AllIds) :
        /\ spawned[next] = 0
        /\ \E id \in DOMAIN tree :
              /\ next \in Range(tree[id])
              /\ Done(id) \/ id \in Range(completed)}

\* C35: once the process of an operator is done, the operators that follow
\* it in the tree are given processes, whether or not the other processes
\* come to an end.
C35_SuccessorsNotDelayed == (Delayed # {}) ~> (Delayed = {})

\* the follower of a done operator runs in a later processor while a process
\* of the processor of the done operator is still running
C35_Witness ==
    \E p, q \in DOMAIN processors : \E id, next, other \in Range(AllIds) :
        /\ p < q
        /\ id \in Range(completed)
        /\ {id, other} \subseteq DOMAIN processors[p].processes
        /\ <<p, other>> \in RunningWorkers
        /\ id \in DOMAIN tree /\ next \in Range(tree[id])
        /\ <<q, next>> \in RunningWorkers

\* C32: a step that creates a process for an operator whose repeat is above
\* 1 compiles the operator in that step (_get_operator is called for it),
\* and the input parameters the process runs with are those compiled from
\* the memory of that step.
C32_CompiledAtDispatch ==
    [][\A i \in 1..Len(config) :
          (config[i].repeat > 1 /\ spawned'[config[i].id_] > spawned[config[i].id_])
              => /\ instantiated'[config[i].id_] > instantiated[config[i].id_]
                 /\ LET job == jobs'[JobIndex(jobs', config[i].id_)]
                        compiled == GetOperator(config, config[i].id_, memory)
                    IN  /\ compiled.err = ""
                        /\ job.input_params = compiled.input_params]_vars

\* C38: between the calls on a Processors object, every operator of the
\* operator map is mapped to a processor of the registry.
C38_MapInRegistry ==
    pc = "processors" =>
        \A i \in 1..Len(operator_map) :
            operator_map[i].proc \in DOMAIN processors

(***************************************************************************)
(* Properties of the two stores                                            *)
(***************************************************************************)
\* C40: a call made on Memory.dedicated raises nothing, leaves the data of
\* the shared store as they are and returns none of them; a call made on
\* Memory.shared leaves the data of the dedicated store as they are.
C40_StoresSeparate ==
    [][Len(calls') > Len(calls) =>
          LET call == calls'[Len(calls')]
          IN  IF call.fn \in DedicatedFns
              THEN /\ call.err = ""
                   /\ memory' = memory
                   /\ call.returned = <<>>
              ELSE dedicated_' = dedicated_]_vars

====
